---- MODULE Spec2Model ----
(***************************************************************************)
(* A model of nispor's link-message reducer (parse_nl_msg_to_iface), the   *)
(* veth cross-reference pass (veth_iface_tidy_up), the SR-IOV VF table     *)
(* decoder (get_sriov_info), the MAC change sequence (change_iface_mac)    *)
(* and the address apply/retrieve cycle exercised by crate_tests/ip.rs.    *)
(*                                                                         *)
(* Conventions.  Option<T> is a sequence: <<>> is None, <<x>> is Some(x).  *)
(* Rust enum values are tuples headed by the variant name: <<"Veth">>,     *)
(* <<"Other", "foo">>.  A Result is a record [ok, v, err].                 *)
(***************************************************************************)
EXTENDS Integers, Sequences, FiniteSets, TLC

VARIABLES
    nl_msg,        \* SpecParse: the link message handed to the reducer
    sysfs_net,     \* SpecParse: the net/ directories under /sys/class/net/<pf>/device/
    parsed,        \* SpecParse: what parse_nl_msg_to_iface returned for it
    phase,         \* Spec: "links" while link messages are reduced, then "tidied"
    iface_states,  \* Spec: the interface map, name -> Iface
    reduced,       \* Spec: the interface map as the reducer left it (input of the pass)
    peer_index,    \* Spec: name -> the Link attribute of the interface's message
    mac_pc,        \* SpecMac: position inside change_iface_mac
    mac_arg,       \* SpecMac: the mac_address argument of the running call
    link_up,       \* SpecMac: the kernel's administrative state of the link
    link_mac,      \* SpecMac: the kernel's MAC address of the link
    prior_up,      \* SpecMac: link_up when the running call started
    requests,      \* SpecMac: the netlink requests the running call has issued
    mac_ret,       \* SpecMac: what the call returned ("" while it runs)
    replies,       \* SpecMac: the kernel's answers to them, in order
    mac_calls,     \* SpecMac: calls started so far
    kaddrs,        \* SpecIp: the kernel's address table of veth1, per family
    now,           \* SpecIp: seconds elapsed
    last_doc,      \* SpecIp: the document of the latest apply ("" before any)
    run_len,       \* SpecIp: consecutive applies of last_doc so far
    first_snap,    \* SpecIp: the snapshot retrieved right after the first of them
    snap,          \* SpecIp: the snapshot of veth1 retrieved since the latest apply or tick
    fresh,         \* SpecIp: no second has passed since the latest apply
    before,        \* SpecIp: the kernel's address table just before the latest apply
    first_pass,    \* Spec: the interface map after the first run of the veth pass
    create_pc,     \* SpecCreate: position inside VethConf::create
    create_arg,    \* SpecCreate: the name and peer of the running call
    create_requests, \* SpecCreate: the netlink requests the running call has issued
    create_ret,    \* SpecCreate: what the call returned
    klinks,        \* SpecCreate: the names of the kernel's links
    fn_call,       \* SpecFn: the function applied and its arguments
    fn_ret         \* SpecFn: what it returned

vars == <<nl_msg, sysfs_net, parsed, phase, iface_states, reduced, peer_index, mac_pc,
          mac_arg, link_up, link_mac, prior_up, requests, replies, mac_ret, mac_calls, kaddrs, now, last_doc,
          run_len, first_snap, snap, fresh, before, first_pass, create_pc, create_arg,
          create_requests, create_ret, klinks, fn_call, fn_ret>>

parseVars == <<nl_msg, sysfs_net, parsed>>
snapVars == <<phase, iface_states, reduced, peer_index, first_pass>>
macVars == <<mac_pc, mac_arg, link_up, link_mac, prior_up, requests, replies, mac_ret,
             mac_calls>>
ipVars == <<kaddrs, now, last_doc, run_len, first_snap, snap, fresh, before>>
createVars == <<create_pc, create_arg, create_requests, create_ret, klinks>>
fnVars == <<fn_call, fn_ret>>

(***************************************************************************)
(* Bounds of the model.                                                    *)
(***************************************************************************)
\* interface indices drawn for the snapshot are 1..MaxIndex
MaxIndex == 3
\* the snapshot holds at most MaxIfaces interfaces
MaxIfaces == 3
\* change_iface_mac is called at most MaxMacCalls times in a run
MaxMacCalls == 2
\* the clock of the address model stops at MaxTime seconds
MaxTime == 3
\* at most MaxApplies consecutive applies of one document are counted
MaxApplies == 3
\* a PF has at most MaxVfs VF entries
MaxVfs == 2

(***************************************************************************)
(* Option and Result.                                                      *)
(***************************************************************************)
None == <<>>
Some(x) == <<x>>
IsSome(o) == o # <<>>
Unwrap(o) == o[1]

Ok(x) == [ok |-> TRUE, v |-> <<x>>, err |-> ""]
Err(e) == [ok |-> FALSE, v |-> <<>>, err |-> e]

(***************************************************************************)
(* format!("{}", n) of an unsigned integer: its decimal digits.            *)
(***************************************************************************)
Digit == <<"0", "1", "2", "3", "4", "5", "6", "7", "8", "9">>

RECURSIVE FormatU32(_)
FormatU32(n) ==
    IF n < 10 THEN Digit[n + 1]
    ELSE FormatU32(n \div 10) \o Digit[(n % 10) + 1]

(***************************************************************************)
(* format!("{:X}", n): upper-case hexadecimal digits.                      *)
(***************************************************************************)
HexDigit == <<"0", "1", "2", "3", "4", "5", "6", "7", "8", "9",
              "A", "B", "C", "D", "E", "F">>

RECURSIVE FormatHex(_)
FormatHex(n) ==
    IF n < 16 THEN HexDigit[n + 1]
    ELSE FormatHex(n \div 16) \o HexDigit[(n % 16) + 1]

\* four hexadecimal digits of a 16-bit half, zero-padded
FormatHex4(h) ==
    HexDigit[(h \div 4096) + 1] \o HexDigit[((h \div 256) % 16) + 1]
        \o HexDigit[((h \div 16) % 16) + 1] \o HexDigit[(h % 16) + 1]

\* format!("{:X}", q) of a u64 given as its 16-bit halves, most significant
\* first: no leading zeros
RECURSIVE FormatHexU64(_)
FormatHexU64(q) ==
    IF Len(q) = 1 THEN FormatHex(q[1])
    ELSE IF q[1] = 0 THEN FormatHexU64(Tail(q))
    ELSE IF Len(q) = 2 THEN FormatHex(q[1]) \o FormatHex4(q[2])
    ELSE IF Len(q) = 3 THEN FormatHex(q[1]) \o FormatHex4(q[2]) \o FormatHex4(q[3])
    ELSE FormatHex(q[1]) \o FormatHex4(q[2]) \o FormatHex4(q[3]) \o FormatHex4(q[4])

(***************************************************************************)
(* sriov.rs: the SR-IOV VF table decoder.                                  *)
(*                                                                         *)
(* A raw VF table is a sequence of ports; a port is [hdr_ok, nlas]; a VF   *)
(* attribute is [hdr_ok, kind, words, bytes, stats]: its value is          *)
(* Len(words) native-endian 32-bit words followed by `bytes` further       *)
(* bytes; stats is the nested attribute list of an IFLA_VF_STATS value;    *)
(* hdr_ok = FALSE is an attribute header NlasIterator rejects.             *)
(***************************************************************************)
IFLA_VF_MAC == 1
IFLA_VF_VLAN == 2
IFLA_VF_TX_RATE == 3
IFLA_VF_SPOOFCHK == 4
IFLA_VF_LINK_STATE == 5
IFLA_VF_RATE == 6
IFLA_VF_RSS_QUERY_EN == 7
IFLA_VF_STATS == 8
IFLA_VF_TRUST == 9
IFLA_VF_IB_NODE_GUID == 10
IFLA_VF_IB_PORT_GUID == 11
IFLA_VF_VLAN_LIST == 12
IFLA_VF_BROADCAST == 13

IFLA_VF_LINK_STATE_AUTO == 0
IFLA_VF_LINK_STATE_ENABLE == 1
IFLA_VF_LINK_STATE_DISABLE == 2

IFLA_VF_STATS_RX_PACKETS == 0
IFLA_VF_STATS_TX_PACKETS == 1
IFLA_VF_STATS_RX_BYTES == 2
IFLA_VF_STATS_TX_BYTES == 3
IFLA_VF_STATS_BROADCAST == 4
IFLA_VF_STATS_MULTICAST == 5
IFLA_VF_STATS_RX_DROPPED == 7
IFLA_VF_STATS_TX_DROPPED == 8

ETH_ALEN == 6
INFINIBAND_ALEN == 20
MAX_ADDR_LEN == 32

\* A 32-bit value read from raw bytes is kept as its two 16-bit halves,
\* <<high, low>>, so that every u32 up to 0xFFFFFFFF is represented exactly.
HALF_MAX == 65535
U32(n) == <<n \div 65536, n % 65536>>
U32_MAX == <<HALF_MAX, HALF_MAX>>
U32Gt0(d) == d[1] > 0 \/ d[2] > 0

\* nla.value().len() in bytes
ValueLen(nla) == 4 * Len(nla.words) + nla.bytes

\* parse_as_u32(&value[off..]), off a multiple of 4: the word at that offset,
\* an error when the value has no four bytes there
parse_as_u32(nla, off) ==
    IF Len(nla.words) >= (off \div 4) + 1
    THEN Ok(nla.words[(off \div 4) + 1])
    ELSE Err("parse_as_u32: wrong length")

\* parse_as_u64(value): two native-endian (little-endian) words, low word
\* first; the u64 is kept as its four 16-bit halves, most significant first
parse_as_u64(nla) ==
    IF Len(nla.words) >= 2
    THEN Ok(<<nla.words[2][1], nla.words[2][2], nla.words[1][1], nla.words[1][2]>>)
    ELSE Err("parse_as_u64: wrong length")

\* parse_as_mac(mac_len, &value[off..]): the first mac_len bytes rendered as a
\* MAC string, an error when fewer bytes are there
parse_as_mac(mac_len, nla, off) ==
    IF ValueLen(nla) >= off /\ ValueLen(nla) - off >= mac_len
    THEN Ok(<<"mac", mac_len, nla.words, nla.bytes>>)
    ELSE Err("parse_as_mac: wrong length")

\* a variant that matches on the low half of the value only
VfLinkStateFromLowHalf(d) ==
    CASE d[2] = IFLA_VF_LINK_STATE_AUTO -> <<"Auto">>
      [] d[2] = IFLA_VF_LINK_STATE_ENABLE -> <<"Enable">>
      [] d[2] = IFLA_VF_LINK_STATE_DISABLE -> <<"Disable">>
      [] OTHER -> <<"Other", d>>

\* impl From<u32> for VfLinkState
VfLinkStateFrom(d) ==
    CASE d = U32(IFLA_VF_LINK_STATE_AUTO) -> <<"Auto">>
      [] d = U32(IFLA_VF_LINK_STATE_ENABLE) -> <<"Enable">>
      [] d = U32(IFLA_VF_LINK_STATE_DISABLE) -> <<"Disable">>
      [] OTHER -> <<"Other", d>>

U64Zero == <<0, 0, 0, 0>>

DefaultVfState ==
    [rx_packets |-> U64Zero, tx_packets |-> U64Zero, rx_bytes |-> U64Zero,
     tx_bytes |-> U64Zero, broadcast |-> U64Zero, multicast |-> U64Zero,
     rx_dropped |-> U64Zero, tx_dropped |-> U64Zero]

DefaultVfInfo ==
    [iface_name |-> None, pf_name |-> None, id |-> U32(0), mac |-> <<>>,
     broadcast |-> <<>>, vlan_id |-> U32(0), qos |-> U32(0), tx_rate |-> U32(0),
     spoof_check |-> FALSE, link_state |-> <<"Unknown">>, min_tx_rate |-> U32(0),
     max_tx_rate |-> U32(0), query_rss |-> FALSE, state |-> DefaultVfState,
     trust |-> FALSE, ib_node_guid |-> None, ib_port_guid |-> None]

\* format!("{}", d) of a u32 given as its halves
FormatU32Halves(d) ==
    IF d[1] = 0 THEN FormatU32(d[2])
    ELSE FormatU32((d[1] \div 10) * 65536 + ((d[1] % 10) * 65536 + d[2]) \div 10)
            \o Digit[(((d[1] % 10) * 65536 + d[2]) % 10) + 1]

\* read_folder: the entries of the directory, none when read_dir fails
\* (the directory is missing or cannot be read); sysfs maps the path of a
\* directory to [readable, entries]
read_folder(sysfs, folder_path) ==
    IF folder_path \in DOMAIN sysfs /\ sysfs[folder_path].readable
    THEN sysfs[folder_path].entries
    ELSE <<>>

\* Vec::pop
Pop(folder_contents) ==
    IF Len(folder_contents) = 0 THEN None ELSE Some(folder_contents[Len(folder_contents)])

\* a variant that falls back on the name of the PF
GetVfIfaceNameOrPf(sysfs, pf_name, sriov_id) ==
    IF Pop(read_folder(sysfs, "/sys/class/net/" \o pf_name \o "/device/virtfn"
                                \o FormatU32Halves(sriov_id) \o "/net/")) = None
    THEN Some(pf_name)
    ELSE Pop(read_folder(sysfs, "/sys/class/net/" \o pf_name \o "/device/virtfn"
                                   \o FormatU32Halves(sriov_id) \o "/net/"))

\* get_vf_iface_name: read_folder(path).pop(), the last entry read
get_vf_iface_name(sysfs, pf_name, sriov_id) ==
    Pop(read_folder(sysfs, "/sys/class/net/" \o pf_name \o "/device/virtfn"
                              \o FormatU32Halves(sriov_id) \o "/net/"))

\* a variant without the all-ones test
VfBoolNonZero(d) == U32Gt0(d)

\* the d > 0 && d != u32::MAX test of the VF boolean attributes
VfBool(d) == U32Gt0(d) /\ d # U32_MAX

\* parse_vf_stats over the statistics attributes from position i on
RECURSIVE parse_vf_stats(_, _, _)
parse_vf_stats(nlas, i, state) ==
    IF i > Len(nlas) THEN Ok(state)
    ELSE LET nla == nlas[i]
             r == parse_as_u64(nla)
             known == {IFLA_VF_STATS_RX_PACKETS, IFLA_VF_STATS_TX_PACKETS,
                       IFLA_VF_STATS_RX_BYTES, IFLA_VF_STATS_TX_BYTES,
                       IFLA_VF_STATS_BROADCAST, IFLA_VF_STATS_MULTICAST,
                       IFLA_VF_STATS_RX_DROPPED, IFLA_VF_STATS_TX_DROPPED}
         IN  IF ~nla.hdr_ok THEN Err("NlasIterator: malformed attribute")
             ELSE IF nla.kind \notin known THEN parse_vf_stats(nlas, i + 1, state)
             ELSE IF ~r.ok THEN Err(r.err)
             ELSE parse_vf_stats(nlas, i + 1,
                    CASE nla.kind = IFLA_VF_STATS_RX_PACKETS -> [state EXCEPT !.rx_packets = r.v[1]]
                      [] nla.kind = IFLA_VF_STATS_TX_PACKETS -> [state EXCEPT !.tx_packets = r.v[1]]
                      [] nla.kind = IFLA_VF_STATS_RX_BYTES -> [state EXCEPT !.rx_bytes = r.v[1]]
                      [] nla.kind = IFLA_VF_STATS_TX_BYTES -> [state EXCEPT !.tx_bytes = r.v[1]]
                      [] nla.kind = IFLA_VF_STATS_BROADCAST -> [state EXCEPT !.broadcast = r.v[1]]
                      [] nla.kind = IFLA_VF_STATS_MULTICAST -> [state EXCEPT !.multicast = r.v[1]]
                      [] nla.kind = IFLA_VF_STATS_RX_DROPPED -> [state EXCEPT !.rx_dropped = r.v[1]]
                      [] nla.kind = IFLA_VF_STATS_TX_DROPPED -> [state EXCEPT !.tx_dropped = r.v[1]])

\* a variant that fails on an attribute kind the match does not name
UnhandledNlaRejected(vf_info) == Err("Unhandled SRIOV NLA")

\* the `_` arm of the match on nla.kind(): a warning is logged
UnhandledNla(vf_info) == Ok(vf_info)

\* one arm of get_sriov_info's match on nla.kind(): the VF entry with the
\* attribute applied, or the error the arm's `?` returns
VfNlaStep(sysfs, pf_iface_name, mac_len, vf_info, nla) ==
    LET w1 == parse_as_u32(nla, 0)
        w2 == parse_as_u32(nla, 4)
        w3 == parse_as_u32(nla, 8)
        q == parse_as_u64(nla)
    IN  CASE nla.kind = IFLA_VF_MAC ->
               LET m == parse_as_mac(mac_len, nla, 4)
               IN  IF ~w1.ok THEN Err(w1.err)
                   ELSE IF ValueLen(nla) < 4 THEN Err("invalid index into nla")
                   ELSE IF ~m.ok THEN Err(m.err)
                   ELSE Ok([vf_info EXCEPT
                              !.id = w1.v[1],
                              !.iface_name = get_vf_iface_name(sysfs, pf_iface_name, w1.v[1]),
                              !.pf_name = Some(pf_iface_name),
                              !.mac = m.v[1]])
          [] nla.kind = IFLA_VF_VLAN ->
               IF ValueLen(nla) < 4 THEN Err("invalid index into nla")
               ELSE IF ~w2.ok THEN Err(w2.err)
               ELSE IF ~w3.ok THEN Err(w3.err)
               ELSE Ok([vf_info EXCEPT !.vlan_id = w2.v[1], !.qos = w3.v[1]])
          [] nla.kind = IFLA_VF_TX_RATE ->
               IF ValueLen(nla) < 4 THEN Err("invalid index into nla")
               ELSE IF ~w2.ok THEN Err(w2.err)
               ELSE Ok([vf_info EXCEPT !.tx_rate = w2.v[1]])
          [] nla.kind = IFLA_VF_SPOOFCHK ->
               IF ValueLen(nla) < 4 THEN Err("invalid index into nla")
               ELSE IF ~w2.ok THEN Err(w2.err)
               ELSE Ok([vf_info EXCEPT !.spoof_check = VfBool(w2.v[1])])
          [] nla.kind = IFLA_VF_LINK_STATE ->
               IF ValueLen(nla) < 4 THEN Err("invalid index into nla")
               ELSE IF ~w2.ok THEN Err(w2.err)
               ELSE Ok([vf_info EXCEPT !.link_state = VfLinkStateFrom(w2.v[1])])
          [] nla.kind = IFLA_VF_RATE ->
               IF ValueLen(nla) < 4 THEN Err("invalid index into nla")
               ELSE IF ~w2.ok THEN Err(w2.err)
               ELSE IF ~w3.ok THEN Err(w3.err)
               ELSE Ok([vf_info EXCEPT !.min_tx_rate = w2.v[1], !.max_tx_rate = w3.v[1]])
          [] nla.kind = IFLA_VF_RSS_QUERY_EN ->
               IF ValueLen(nla) < 4 THEN Err("invalid index into nla")
               ELSE IF ~w2.ok THEN Err(w2.err)
               ELSE Ok([vf_info EXCEPT !.query_rss = VfBool(w2.v[1])])
          [] nla.kind = IFLA_VF_STATS ->
               LET s == parse_vf_stats(nla.stats, 1, DefaultVfState)
               IN  IF ~s.ok THEN Err(s.err)
                   ELSE Ok([vf_info EXCEPT !.state = s.v[1]])
          [] nla.kind = IFLA_VF_TRUST ->
               IF ValueLen(nla) < 4 THEN Err("invalid index into nla")
               ELSE IF ~w2.ok THEN Err(w2.err)
               ELSE Ok([vf_info EXCEPT !.trust = VfBool(w2.v[1])])
          [] nla.kind = IFLA_VF_IB_NODE_GUID ->
               IF ~q.ok THEN Err(q.err)
               ELSE Ok([vf_info EXCEPT !.ib_node_guid = Some(FormatHexU64(q.v[1]))])
          [] nla.kind = IFLA_VF_IB_PORT_GUID ->
               IF ~q.ok THEN Err(q.err)
               ELSE Ok([vf_info EXCEPT !.ib_port_guid = Some(FormatHexU64(q.v[1]))])
          [] nla.kind = IFLA_VF_VLAN_LIST -> Ok(vf_info)
          [] nla.kind = IFLA_VF_BROADCAST ->
               LET b == parse_as_mac(mac_len, nla, 0)
               IN  IF ~b.ok THEN Err(b.err)
                   ELSE Ok([vf_info EXCEPT !.broadcast = b.v[1]])
          [] OTHER -> UnhandledNla(vf_info)

\* the inner loop of get_sriov_info: the attributes of one port from i on;
\* r is the Result of the attributes before i
RECURSIVE VfPortLoop(_, _, _, _, _, _)
VfPortLoop(sysfs, pf_iface_name, mac_len, nlas, i, r) ==
    IF ~r.ok \/ i > Len(nlas) THEN r
    ELSE IF ~nlas[i].hdr_ok THEN Err("NlasIterator: malformed attribute")
    ELSE VfPortLoop(sysfs, pf_iface_name, mac_len, nlas, i + 1,
                    VfNlaStep(sysfs, pf_iface_name, mac_len, r.v[1], nlas[i]))

\* sriov_info.vfs.push(vf_info), unless the port's loop returned an error
PushVf(vfs, r) ==
    IF r.ok THEN Ok(Append(vfs.v[1], r.v[1])) ELSE r

\* the outer loop of get_sriov_info: the ports from i on; vfs is the Result
\* of the ports before i
RECURSIVE VfTableLoop(_, _, _, _, _, _)
VfTableLoop(sysfs, pf_iface_name, mac_len, raw, i, vfs) ==
    IF ~vfs.ok \/ i > Len(raw) THEN vfs
    ELSE IF ~raw[i].hdr_ok THEN Err("NlasIterator: malformed attribute")
    ELSE VfTableLoop(sysfs, pf_iface_name, mac_len, raw, i + 1,
                     PushVf(vfs, VfPortLoop(sysfs, pf_iface_name, mac_len, raw[i].nlas, 1,
                                            Ok(DefaultVfInfo))))

\* Ok(sriov_info)
SriovInfoOf(vfs) ==
    IF vfs.ok THEN Ok([vfs |-> vfs.v[1]]) ELSE vfs

get_sriov_info(sysfs, pf_iface_name, raw, iface_type) ==
    LET mac_len == CASE iface_type = <<"Ethernet">> -> ETH_ALEN
                     [] iface_type = <<"Infiniband">> -> INFINIBAND_ALEN
                     [] OTHER -> MAX_ADDR_LEN
    IN  SriovInfoOf(VfTableLoop(sysfs, pf_iface_name, mac_len, raw, 1, Ok(<<>>)))

(***************************************************************************)
(* The per-kind decoders parse_nl_msg_to_iface dispatches to (bond.rs,     *)
(* bridge.rs, tun.rs, vlan.rs, vxlan.rs, vrf.rs, mac_vlan.rs, mac_vtap.rs, *)
(* ipoib.rs).  A data block is [ok, some]: ok = FALSE is a block holding   *)
(* an attribute of unexpected length, some = FALSE a block without the     *)
(* attributes the decoder reads.  A decoder whose return type is a Result  *)
(* fails on a block that is not ok; one whose return type holds an Option  *)
(* yields None where it finds nothing to report.                           *)
(***************************************************************************)
get_bond_info(d) ==
    IF ~d.ok THEN Err("bond: wrong attribute length")
    ELSE IF d.some THEN Ok(Some([kind |-> "bond"])) ELSE Ok(None)

get_bridge_info(d) ==
    IF ~d.ok THEN Err("bridge: wrong attribute length")
    ELSE IF d.some THEN Ok(Some([kind |-> "bridge"])) ELSE Ok(None)

get_tun_info(d) ==
    IF d.ok THEN Ok([kind |-> "tun"]) ELSE Err("tun: wrong attribute length")

get_vlan_info(d) ==
    IF d.ok /\ d.some THEN Some([kind |-> "vlan", base_iface |-> ""]) ELSE None

get_vxlan_info(d) ==
    IF ~d.ok THEN Err("vxlan: wrong attribute length")
    ELSE IF d.some THEN Ok(Some([kind |-> "vxlan"])) ELSE Ok(None)

get_vrf_info(d) ==
    IF d.ok /\ d.some THEN Some([kind |-> "vrf"]) ELSE None

get_mac_vlan_info(d) ==
    IF ~d.ok THEN Err("mac_vlan: wrong attribute length")
    ELSE IF d.some THEN Ok(Some([kind |-> "mac_vlan", base_iface |-> ""])) ELSE Ok(None)

get_mac_vtap_info(d) ==
    IF ~d.ok THEN Err("mac_vtap: wrong attribute length")
    ELSE IF d.some THEN Ok(Some([kind |-> "mac_vtap", base_iface |-> ""])) ELSE Ok(None)

get_ipoib_info(d) ==
    IF d.ok /\ d.some THEN Some([kind |-> "ipoib", base_iface |-> None]) ELSE None

get_bond_subordinate_info(d) ==
    IF d.ok THEN Ok([kind |-> "bond_subordinate"])
    ELSE Err("bond_subordinate: wrong attribute length")

get_bridge_port_info(d) ==
    IF ~d.ok THEN Err("bridge_port: wrong attribute length")
    ELSE IF d.some THEN Ok(Some([kind |-> "bridge_port"])) ELSE Ok(None)

get_vrf_subordinate_info(d) ==
    IF ~d.ok THEN Err("vrf_subordinate: wrong attribute length")
    ELSE IF d.some THEN Ok(Some([kind |-> "vrf_subordinate"])) ELSE Ok(None)

(***************************************************************************)
(* iface.rs: the link message reducer.                                     *)
(*                                                                         *)
(* A link message is [link_layer_type, index, nlas]; an attribute is a     *)
(* record tagged by t ("IfName", "Link", "NetnsId", "Master", "Info",      *)
(* "VfInfoList"); an Info sub-attribute is tagged "Kind", "Data",          *)
(* "PortKind" or "PortData".                                               *)
(***************************************************************************)
ARPHRD_ETHER == 1
ARPHRD_INFINIBAND == 32
ARPHRD_LOOPBACK == 772

\* the header flag bits the reducer names
IFF_UP == 1
IFF_BROADCAST == 2
IFF_DEBUG == 4
IFF_LOOPBACK == 8
IFF_POINTOPOINT == 16
IFF_RUNNING == 64
IFF_NOARP == 128
IFF_PROMISC == 256
IFF_ALLMULTI == 512
IFF_MASTER == 1024
IFF_PORT == 2048
IFF_MULTICAST == 4096
IFF_PORTSEL == 8192
IFF_AUTOMEDIA == 16384
IFF_LOWER_UP == 65536
IFF_DORMANT == 131072

\* a variant that widens through i32: the sign bit of the u32 is extended
U32AsI64SignExtended(d) ==
    IF d[1] >= 32768 THEN <<HALF_MAX, HALF_MAX, d[1], d[2]>> ELSE <<0, 0, d[1], d[2]>>

\* `u as i64` of a u32: zero-extended; an i64 is kept as its four 16-bit
\* halves, most significant first, negative when the first is 0x8000 or more
U32AsI64(d) == <<0, 0, d[1], d[2]>>

DefaultIface ==
    [name |-> "", index |-> 0, iface_type |-> <<"Unknown">>,
     state |-> <<"Unknown">>, mtu |-> <<0, 0, 0, 0>>, min_mtu |-> None,
     max_mtu |-> None, flags |-> <<>>,
     controller |-> None, controller_type |-> None, link_netnsid |-> None,
     bond |-> None, bond_subordinate |-> None, bridge |-> None,
     bridge_port |-> None, tun |-> None, vlan |-> None, vxlan |-> None,
     veth |-> None, vrf |-> None, vrf_subordinate |-> None, mac_vlan |-> None,
     mac_vtap |-> None, sriov |-> None, sriov_vf |-> None, ipoib |-> None]

\* impl std::fmt::Display for IfaceType
IfaceTypeDisplay(ty) ==
    CASE ty = <<"Bond">> -> "bond"
      [] ty = <<"Veth">> -> "veth"
      [] ty = <<"Bridge">> -> "bridge"
      [] ty = <<"Vlan">> -> "vlan"
      [] ty = <<"Dummy">> -> "dummy"
      [] ty = <<"Vxlan">> -> "vxlan"
      [] ty = <<"Loopback">> -> "loopback"
      [] ty = <<"Ethernet">> -> "ethernet"
      [] ty = <<"Infiniband">> -> "infiniband"
      [] ty = <<"Vrf">> -> "vrf"
      [] ty = <<"Tun">> -> "tun"
      [] ty = <<"MacVlan">> -> "macvlan"
      [] ty = <<"MacVtap">> -> "macvtap"
      [] ty = <<"OpenvSwitch">> -> "openvswitch"
      [] ty = <<"Ipoib">> -> "ipoib"
      [] ty = <<"Unknown">> -> "unknown"
      [] ty[1] = "Other" -> ty[2]

\* impl From<&str> for ControllerType
ControllerTypeFrom(s) ==
    CASE s = "bond" -> <<"Bond">>
      [] s = "bridge" -> <<"Bridge">>
      [] s = "vrf" -> <<"Vrf">>
      [] s = "openvswitch" -> <<"OpenvSwitch">>
      [] OTHER -> <<"Other", s>>

\* format!("{state:?}") of a nlas::State
StateDebug(state) ==
    IF state[1] = "Other" THEN "Other(" \o FormatU32(state[2]) \o ")" ELSE state[1]

_get_iface_state(state) ==
    CASE state = <<"Up">> -> <<"Up">>
      [] state = <<"Dormant">> -> <<"Dormant">>
      [] state = <<"Down">> -> <<"Down">>
      [] state = <<"LowerLayerDown">> -> <<"LowerLayerDown">>
      [] state = <<"Unknown">> -> <<"Unknown">>
      [] OTHER -> <<"Other", StateDebug(state)>>

\* a & b of two 16-bit halves
RECURSIVE And16(_, _)
And16(a, b) ==
    IF a = 0 \/ b = 0 THEN 0
    ELSE (a % 2) * (b % 2) + 2 * And16(a \div 2, b \div 2)

\* a variant that tests the low 16 bits of the flags only
FlagSetLowHalf(flags, bit) == And16(flags[2], bit % 65536) > 0

\* `(flags & bit) > 0`, flags a u32 as its halves
FlagSet(flags, bit) ==
    And16(flags[1], bit \div 65536) > 0 \/ And16(flags[2], bit % 65536) > 0

\* `if (flags & bit) > 0 { ret.push(flag) }`
PushIf(ret, flags, bit, flag) == IF FlagSet(flags, bit) THEN Append(ret, <<flag>>) ELSE ret

_parse_iface_flags(flags) ==
    PushIf(PushIf(PushIf(PushIf(PushIf(PushIf(PushIf(PushIf(
    PushIf(PushIf(PushIf(PushIf(PushIf(PushIf(PushIf(PushIf(<<>>,
        flags, IFF_ALLMULTI, "AllMulti"),
        flags, IFF_AUTOMEDIA, "AutoMedia"),
        flags, IFF_BROADCAST, "Broadcast"),
        flags, IFF_DEBUG, "Debug"),
        flags, IFF_DORMANT, "Dormant"),
        flags, IFF_LOOPBACK, "Loopback"),
        flags, IFF_LOWER_UP, "LowerUp"),
        flags, IFF_MASTER, "Controller"),
        flags, IFF_MULTICAST, "Multicast"),
        flags, IFF_NOARP, "NoArp"),
        flags, IFF_POINTOPOINT, "PoinToPoint"),
        flags, IFF_PORTSEL, "Portsel"),
        flags, IFF_PROMISC, "Promisc"),
        flags, IFF_RUNNING, "Running"),
        flags, IFF_PORT, "Subordinate"),
        flags, IFF_UP, "Up")

_get_iface_name(msg) ==
    LET named == {i \in 1..Len(msg.nlas) : msg.nlas[i].t = "IfName"}
    IN  IF named = {} THEN ""
        ELSE msg.nlas[CHOOSE i \in named : \A j \in named : i <= j].name

LinkLayerType(msg) ==
    CASE msg.link_layer_type = ARPHRD_ETHER -> <<"Ethernet">>
      [] msg.link_layer_type = ARPHRD_LOOPBACK -> <<"Loopback">>
      [] msg.link_layer_type = ARPHRD_INFINIBAND -> <<"Infiniband">>
      [] OTHER -> <<"Unknown">>

\* the match on nlas::InfoKind; a variant of the library's enum that the
\* match does not list falls to its last arm, Other(format!("{t:?}"))
InfoKindToIfaceType(t) ==
    CASE t = <<"Bond">> -> <<"Bond">>
      [] t = <<"Veth">> -> <<"Veth">>
      [] t = <<"Bridge">> -> <<"Bridge">>
      [] t = <<"Vlan">> -> <<"Vlan">>
      [] t = <<"Vxlan">> -> <<"Vxlan">>
      [] t = <<"Dummy">> -> <<"Dummy">>
      [] t = <<"Tun">> -> <<"Tun">>
      [] t = <<"Vrf">> -> <<"Vrf">>
      [] t = <<"MacVlan">> -> <<"MacVlan">>
      [] t = <<"MacVtap">> -> <<"MacVtap">>
      [] t = <<"Ipoib">> -> <<"Ipoib">>
      [] t[1] = "Other" -> IF t[2] = "openvswitch" THEN <<"OpenvSwitch">>
                           ELSE <<"Other", t[2]>>
      [] OTHER -> <<"Other", t[1]>>

\* a variant of the kind match that keeps a link-layer kind once it is known
ResolveKindKeepsLinkLayer(cur, iface_type) ==
    IF cur = <<"Unknown">> THEN iface_type ELSE cur

\* the kind the record takes when a Kind sub-attribute resolves to iface_type
\* and the record's kind so far is cur
ResolveKind(cur, iface_type) ==
    IF iface_type[1] = "Other"
    THEN IF cur = <<"Unknown">> THEN iface_type ELSE cur
    ELSE iface_type

\* first pass over the Info sub-attributes: Kind
RECURSIVE KindLoop(_, _, _)
KindLoop(st, infos, i) ==
    IF i > Len(infos) THEN st
    ELSE IF infos[i].t = "Kind"
    THEN KindLoop([st EXCEPT !.iface.iface_type =
                       ResolveKind(@, InfoKindToIfaceType(infos[i].kind))],
                  infos, i + 1)
    ELSE KindLoop(st, infos, i + 1)

\* the state after a decoder returning Result<Option<T>> or Result<T> was
\* called with `?`: the error ends the parse, a value goes through `set`
Called(st, decoder, r) ==
    [st EXCEPT !.calls = Append(@, [decoder |-> decoder, failed |-> ~r.ok, err |-> r.err]),
               !.err = IF r.ok THEN @ ELSE r.err]

\* a variant of the TUN arm that returns the decoder's error
TunArmPropagates(st, d) ==
    LET r == get_tun_info(d)
        c == Called(st, "tun", r)
    IN  IF r.ok THEN [c EXCEPT !.iface.tun = Some(r.v[1])] ELSE c

\* the IfaceType::Tun arm: a decoder error is logged and dropped
TunArm(st, d) ==
    LET r == get_tun_info(d)
        c == [st EXCEPT !.calls = Append(@, [decoder |-> "tun", failed |-> ~r.ok, err |-> r.err])]
    IN  IF r.ok THEN [c EXCEPT !.iface.tun = Some(r.v[1])] ELSE c

\* the match on iface_state.iface_type for one Data sub-attribute
DataStep(st, d) ==
    LET ty == st.iface.iface_type
    IN  CASE ty = <<"Bond">> ->
               LET r == get_bond_info(d) c == Called(st, "bond", r)
               IN  IF r.ok THEN [c EXCEPT !.iface.bond = r.v[1]] ELSE c
          [] ty = <<"Bridge">> ->
               LET r == get_bridge_info(d) c == Called(st, "bridge", r)
               IN  IF r.ok THEN [c EXCEPT !.iface.bridge = r.v[1]] ELSE c
          [] ty = <<"Tun">> -> TunArm(st, d)
          [] ty = <<"Vlan">> -> [st EXCEPT !.iface.vlan = get_vlan_info(d)]
          [] ty = <<"Vxlan">> ->
               LET r == get_vxlan_info(d) c == Called(st, "vxlan", r)
               IN  IF r.ok THEN [c EXCEPT !.iface.vxlan = r.v[1]] ELSE c
          [] ty = <<"Vrf">> -> [st EXCEPT !.iface.vrf = get_vrf_info(d)]
          [] ty = <<"MacVlan">> ->
               LET r == get_mac_vlan_info(d) c == Called(st, "mac_vlan", r)
               IN  IF r.ok THEN [c EXCEPT !.iface.mac_vlan = r.v[1]] ELSE c
          [] ty = <<"MacVtap">> ->
               LET r == get_mac_vtap_info(d) c == Called(st, "mac_vtap", r)
               IN  IF r.ok THEN [c EXCEPT !.iface.mac_vtap = r.v[1]] ELSE c
          [] ty = <<"Ipoib">> -> [st EXCEPT !.iface.ipoib = get_ipoib_info(d)]
          [] OTHER -> st

\* second pass: Data
\* a variant that decodes a data block only where Kind precedes it in the list
RECURSIVE DataLoopAfterKind(_, _, _)
DataLoopAfterKind(st, infos, i) ==
    IF i > Len(infos) \/ st.err # "" THEN st
    ELSE IF infos[i].t = "Data" /\ \E j \in 1..(i - 1) : infos[j].t = "Kind"
    THEN DataLoopAfterKind(DataStep(st, infos[i].d), infos, i + 1)
    ELSE DataLoopAfterKind(st, infos, i + 1)

RECURSIVE DataLoop(_, _, _)
DataLoop(st, infos, i) ==
    IF i > Len(infos) \/ st.err # "" THEN st
    ELSE IF infos[i].t = "Data" THEN DataLoop(DataStep(st, infos[i].d), infos, i + 1)
    ELSE DataLoop(st, infos, i + 1)

\* the match on nlas::InfoPortKind
PortKindStep(st, k) ==
    CASE k = <<"Bond">> -> [st EXCEPT !.iface.controller_type = Some(<<"Bond">>)]
      [] k[1] = "Other" -> [st EXCEPT !.iface.controller_type = Some(ControllerTypeFrom(k[2]))]
      [] OTHER -> st

\* third pass: PortKind
RECURSIVE PortKindLoop(_, _, _)
PortKindLoop(st, infos, i) ==
    IF i > Len(infos) THEN st
    ELSE IF infos[i].t = "PortKind"
    THEN PortKindLoop(PortKindStep(st, infos[i].kind), infos, i + 1)
    ELSE PortKindLoop(st, infos, i + 1)

\* a variant of the port-data match that fills the bridge-port record whatever
\* the controller kind is
PortDataStepAnyController(st, controller_type, pd) ==
    CASE pd.variant = "BondPort" ->
           LET r == get_bond_subordinate_info(pd) c == Called(st, "bond_subordinate", r)
           IN  IF r.ok THEN [c EXCEPT !.iface.bond_subordinate = Some(r.v[1])] ELSE c
      [] pd.variant = "Other" ->
           LET r == get_bridge_port_info(pd) c == Called(st, "bridge_port", r)
           IN  IF r.ok THEN [c EXCEPT !.iface.bridge_port = r.v[1]] ELSE c
      [] OTHER -> st

\* the match on nlas::InfoPortData, inside `if let Some(controller_type)`
PortDataStep(st, controller_type, pd) ==
    CASE pd.variant = "BondPort" ->
           LET r == get_bond_subordinate_info(pd) c == Called(st, "bond_subordinate", r)
           IN  IF r.ok THEN [c EXCEPT !.iface.bond_subordinate = Some(r.v[1])] ELSE c
      [] pd.variant = "Other" ->
           CASE controller_type = <<"Bridge">> ->
                  LET r == get_bridge_port_info(pd) c == Called(st, "bridge_port", r)
                  IN  IF r.ok THEN [c EXCEPT !.iface.bridge_port = r.v[1]] ELSE c
             [] controller_type = <<"Vrf">> ->
                  LET r == get_vrf_subordinate_info(pd) c == Called(st, "vrf_subordinate", r)
                  IN  IF r.ok THEN [c EXCEPT !.iface.vrf_subordinate = r.v[1]] ELSE c
             [] OTHER -> st
      [] OTHER -> st

\* fourth pass: PortData; controller_type is the borrow taken before the loop
RECURSIVE PortDataLoop(_, _, _, _)
PortDataLoop(st, controller_type, infos, i) ==
    IF i > Len(infos) \/ st.err # "" THEN st
    ELSE IF infos[i].t = "PortData"
    THEN PortDataLoop(PortDataStep(st, controller_type, infos[i].d), controller_type,
                      infos, i + 1)
    ELSE PortDataLoop(st, controller_type, infos, i + 1)

\* the third pass runs unless a decoder of the second returned an error
PortKindPass(st, infos) ==
    IF st.err # "" THEN st ELSE PortKindLoop(st, infos, 1)

\* `if let Some(controller_type) = &iface_state.controller_type`: the fourth pass
PortDataPass(st, infos) ==
    IF st.err # "" \/ ~IsSome(st.iface.controller_type) THEN st
    ELSE PortDataLoop(st, Unwrap(st.iface.controller_type), infos, 1)

\* the Nla::Info arm: the four passes over the sub-attributes
InfoStep(st, infos) ==
    PortDataPass(PortKindPass(DataLoop(KindLoop(st, infos, 1), infos, 1), infos), infos)

\* `if let Ok(info) = get_sriov_info(..)`: a decoder error is dropped
SetSriov(st, r) ==
    IF r.ok
    THEN [st EXCEPT !.iface.sriov = Some(r.v[1]),
                    !.calls = Append(@, [decoder |-> "sriov", failed |-> FALSE, err |-> ""])]
    ELSE [st EXCEPT !.calls = Append(@, [decoder |-> "sriov", failed |-> TRUE, err |-> r.err])]

\* the Nla::VfInfoList arm
VfInfoListArm(st, fs, data, link_layer_type) ==
    SetSriov(st, get_sriov_info(fs, st.iface.name, data, link_layer_type))

\* the Nla::MinMtu and Nla::MaxMtu arms: zero is no limit
MtuLimit(mtu) == IF U32Gt0(mtu) THEN Some(U32AsI64(mtu)) ELSE None

\* one turn of `for nla in &nl_msg.nlas`
NlaStep(st, fs, nla, link_layer_type) ==
    CASE nla.t = "Mtu" -> [st EXCEPT !.iface.mtu = U32AsI64(nla.mtu)]
      [] nla.t = "MinMtu" -> [st EXCEPT !.iface.min_mtu = MtuLimit(nla.mtu)]
      [] nla.t = "MaxMtu" -> [st EXCEPT !.iface.max_mtu = MtuLimit(nla.mtu)]
      [] nla.t = "OperState" -> [st EXCEPT !.iface.state = _get_iface_state(nla.state)]
      [] nla.t = "Master" -> [st EXCEPT !.iface.controller = Some(FormatU32(nla.controller))]
      [] nla.t = "Link" -> [st EXCEPT !.link = Some(nla.l)]
      [] nla.t = "Info" -> InfoStep(st, nla.infos)
      [] nla.t = "VfInfoList" -> VfInfoListArm(st, fs, nla.data, link_layer_type)
      [] nla.t = "NetnsId" -> [st EXCEPT !.iface.link_netnsid = Some(nla.id)]
      [] OTHER -> st

RECURSIVE NlaLoop(_, _, _, _, _)
NlaLoop(st, fs, nlas, i, link_layer_type) ==
    IF i > Len(nlas) \/ st.err # "" THEN st
    ELSE NlaLoop(NlaStep(st, fs, nlas[i], link_layer_type), fs, nlas, i + 1, link_layer_type)

\* after the loop: the link index becomes the vlan's base interface
ApplyLinkVlan(iface, link) ==
    IF IsSome(iface.vlan) /\ IsSome(link)
    THEN [iface EXCEPT !.vlan = Some([@[1] EXCEPT !.base_iface = FormatU32(link[1])])]
    ELSE iface

\* ... the ipoib's base interface
ApplyLinkIpoib(iface, link) ==
    IF IsSome(iface.ipoib) /\ IsSome(link)
    THEN [iface EXCEPT !.ipoib = Some([@[1] EXCEPT !.base_iface = Some(FormatU32(link[1]))])]
    ELSE iface

\* ... and, by kind, the veth peer or the macvlan/macvtap base interface
ApplyLinkKind(iface, link) ==
    IF ~IsSome(link) THEN iface
    ELSE CASE iface.iface_type = <<"Veth">> ->
                [iface EXCEPT !.veth = Some([peer |-> FormatU32(link[1])])]
           [] iface.iface_type = <<"MacVlan">> /\ IsSome(iface.mac_vlan) ->
                [iface EXCEPT !.mac_vlan = Some([@[1] EXCEPT !.base_iface = FormatU32(link[1])])]
           [] iface.iface_type = <<"MacVtap">> /\ IsSome(iface.mac_vtap) ->
                [iface EXCEPT !.mac_vtap = Some([@[1] EXCEPT !.base_iface = FormatU32(link[1])])]
           [] OTHER -> iface

\* what follows the loop: the link index is written into the per-kind record
ApplyLink(iface, link) ==
    ApplyLinkKind(ApplyLinkIpoib(ApplyLinkVlan(iface, link), link), link)

\* the state the loop over the attributes starts from
ParseStart(name, link_layer_type, index) ==
    [iface |-> [DefaultIface EXCEPT !.name = name,
                                    !.iface_type = link_layer_type,
                                    !.index = index],
     link |-> None, err |-> "", calls |-> <<>>]

\* the return of parse_nl_msg_to_iface once the loop has ended in state st
ParseReturn(st, flags) ==
    IF st.err # "" THEN [ret |-> Err(st.err), calls |-> st.calls]
    ELSE [ret |-> Ok(Some([ApplyLink(st.iface, st.link) EXCEPT !.flags = _parse_iface_flags(flags)])),
          calls |-> st.calls]

\* parse_nl_msg_to_iface with the decoder calls it made: [ret, calls], ret the
\* Result<Option<Iface>> returned
ParseWithCalls(msg, fs) ==
    IF _get_iface_name(msg) = "" THEN [ret |-> Ok(None), calls |-> <<>>]
    ELSE ParseReturn(NlaLoop(ParseStart(_get_iface_name(msg), LinkLayerType(msg), msg.index),
                             fs, msg.nlas, 1, LinkLayerType(msg)),
                     msg.flags)

parse_nl_msg_to_iface(msg, fs) == ParseWithCalls(msg, fs).ret

(***************************************************************************)
(* The link messages the reducer is checked on.                            *)
(***************************************************************************)
\* netlink_packet_route's InfoKind values: the variants the reducer names,
\* Other(String), and GreTap, a variant of the enum the reducer does not name
KnownInfoKinds ==
    {<<"Bond">>, <<"Veth">>, <<"Bridge">>, <<"Vlan">>, <<"Vxlan">>, <<"Dummy">>,
     <<"Tun">>, <<"Vrf">>, <<"MacVlan">>, <<"MacVtap">>, <<"Ipoib">>,
     <<"Other", "openvswitch">>}

UnrecognizedInfoKinds == {<<"Other", "foo">>, <<"GreTap">>}

InfoKinds == KnownInfoKinds \cup UnrecognizedInfoKinds

\* the kind string the kernel sent for an InfoKind value
InfoKindString(t) ==
    CASE t = <<"Bond">> -> "bond"
      [] t = <<"Veth">> -> "veth"
      [] t = <<"Bridge">> -> "bridge"
      [] t = <<"Vlan">> -> "vlan"
      [] t = <<"Vxlan">> -> "vxlan"
      [] t = <<"Dummy">> -> "dummy"
      [] t = <<"Tun">> -> "tun"
      [] t = <<"Vrf">> -> "vrf"
      [] t = <<"MacVlan">> -> "macvlan"
      [] t = <<"MacVtap">> -> "macvtap"
      [] t = <<"Ipoib">> -> "ipoib"
      [] t = <<"GreTap">> -> "gretap"
      [] OTHER -> t[2]

\* InfoPortKind is Bond or Other(String); the library decodes the port data
\* as BondPort under port kind Bond and as Other (raw bytes) under Other
PortKinds ==
    {<<"Bond">>, <<"Other", "bridge">>, <<"Other", "vrf">>,
     <<"Other", "openvswitch">>, <<"Other", "team">>}

\* the data blocks: well-formed with or without the attributes the decoder
\* reads, or holding an attribute of unexpected length
Blocks == {[ok |-> TRUE, some |-> TRUE], [ok |-> TRUE, some |-> FALSE],
           [ok |-> FALSE, some |-> TRUE]}

PortDataFor(k) ==
    IF k = <<"Bond">>
    THEN {[variant |-> "BondPort", ok |-> b.ok, some |-> b.some] : b \in Blocks}
    ELSE {[variant |-> "Other", ok |-> b.ok, some |-> b.some] : b \in Blocks}

\* the sub-attribute lists of one Info attribute, in the kernel's order
\* (Kind, Data, PortKind, PortData), each sub-attribute at most once
InfoLists ==
    LET kindPart == {<<>>} \cup {<<[t |-> "Kind", kind |-> k]>> : k \in InfoKinds}
        dataPart == {<<>>} \cup {<<[t |-> "Data", d |-> b]>> : b \in Blocks}
        portPart == {<<>>}
                    \cup {<<[t |-> "PortKind", kind |-> k]>> : k \in PortKinds}
                    \cup UNION {{<<[t |-> "PortKind", kind |-> k], [t |-> "PortData", d |-> pd]>>
                                 : pd \in PortDataFor(k)} : k \in PortKinds}
    IN  {k \o d \o p : k \in kindPart, d \in dataPart, p \in portPart}

\* a VF attribute
VfNla(kind, words, bytes) ==
    [hdr_ok |-> TRUE, kind |-> kind, words |-> words, bytes |-> bytes, stats |-> <<>>]

\* a well-formed VF table of one VF (id 0), as the kernel sends it
GoodVfTable ==
    <<[hdr_ok |-> TRUE,
       nlas |-> <<VfNla(IFLA_VF_MAC, <<U32(0)>>, 32),
                  VfNla(IFLA_VF_BROADCAST, <<>>, 32),
                  VfNla(IFLA_VF_VLAN, <<U32(0), U32(100), U32(1)>>, 0),
                  VfNla(IFLA_VF_TX_RATE, <<U32(0), U32(1000)>>, 0),
                  VfNla(IFLA_VF_SPOOFCHK, <<U32(0), U32(1)>>, 0),
                  VfNla(IFLA_VF_LINK_STATE, <<U32(0), U32(IFLA_VF_LINK_STATE_ENABLE)>>, 0),
                  VfNla(IFLA_VF_RATE, <<U32(0), U32(10), U32(1000)>>, 0),
                  VfNla(IFLA_VF_RSS_QUERY_EN, <<U32(0), U32(0)>>, 0),
                  [hdr_ok |-> TRUE, kind |-> IFLA_VF_STATS, words |-> <<>>, bytes |-> 0,
                   stats |-> <<VfNla(IFLA_VF_STATS_RX_PACKETS, <<U32(7), U32(0)>>, 0),
                               VfNla(IFLA_VF_STATS_TX_DROPPED, <<U32(1), U32(1)>>, 0)>>],
                  VfNla(IFLA_VF_TRUST, <<U32(0), U32_MAX>>, 0),
                  VfNla(IFLA_VF_VLAN_LIST, <<>>, 20)>>]>>

\* VF tables holding an attribute of unexpected length: a spoof-check value of
\* four bytes, and a VF MAC value too short for the link-layer address length
ShortSpoofchkVfTable ==
    <<[hdr_ok |-> TRUE,
       nlas |-> <<VfNla(IFLA_VF_MAC, <<U32(0)>>, 32),
                  VfNla(IFLA_VF_SPOOFCHK, <<U32(0)>>, 0)>>]>>

ShortMacVfTable ==
    <<[hdr_ok |-> TRUE, nlas |-> <<VfNla(IFLA_VF_MAC, <<U32(0)>>, 2)>>]>>

VfTables == {GoodVfTable, ShortSpoofchkVfTable, ShortMacVfTable}

\* a sysfs tree of one directory
Dir(path, readable, entries) ==
    [k \in {path} |-> [readable |-> readable, entries |-> entries]]

\* the sysfs trees: no virtfn directory at all; virtfn0/net/ of PF "eth0"
\* holding the one entry "eth0v0", holding nothing, or unreadable; and only
\* virtfn1/net/, the directory of another VF
SysfsTrees ==
    {<<>>,
     Dir("/sys/class/net/eth0/device/virtfn0/net/", TRUE, <<"eth0v0">>),
     Dir("/sys/class/net/eth0/device/virtfn0/net/", TRUE, <<>>),
     Dir("/sys/class/net/eth0/device/virtfn0/net/", FALSE, <<"eth0v0">>),
     Dir("/sys/class/net/eth0/device/virtfn1/net/", TRUE, <<"eth0v1">>)}

EmptyMsg == [link_layer_type |-> 0, index |-> 0, flags |-> U32(0), nlas |-> <<>>]

\* the optional attributes around Info: Link, NetnsId, VfInfoList
LinkParts == {<<>>} \cup {<<[t |-> "Link", l |-> l]>> : l \in {MaxIndex + 9}}
NetnsParts == {<<>>, <<[t |-> "NetnsId", id |-> 0]>>}
VfParts == {<<>>} \cup {<<[t |-> "VfInfoList", data |-> raw]>> : raw \in VfTables}

\* the link-layer types of the messages: the three the reducer names and
\* ARPHRD_NONE
LinkLayerTypes == {ARPHRD_ETHER, ARPHRD_LOOPBACK, ARPHRD_INFINIBAND, 65534}

\* the Info attributes a physical function may carry: none, or that of a port
\* of a bond or a bridge
PfInfoParts ==
    {<<>>,
     <<[t |-> "Info", infos |-> <<[t |-> "PortKind", kind |-> <<"Bond">>],
                                  [t |-> "PortData", d |-> [variant |-> "BondPort", ok |-> TRUE, some |-> TRUE]]>>]>>,
     <<[t |-> "Info", infos |-> <<[t |-> "PortKind", kind |-> <<"Other", "bridge">>],
                                  [t |-> "PortData", d |-> [variant |-> "Other", ok |-> FALSE, some |-> TRUE]]>>]>>,
     <<[t |-> "Info", infos |-> <<[t |-> "Kind", kind |-> <<"Tun">>],
                                  [t |-> "Data", d |-> [ok |-> FALSE, some |-> TRUE]]>>]>>}

\* link messages of the given link-layer types: a name, then the attributes in
\* the kernel's order or with Link and NetnsId ahead of Info; the messages of
\* physical functions carry a VF table; one message has no name
LinkMessagesOf(llts) ==
    LET name == <<[t |-> "IfName", name |-> "eth0"]>>
        infoParts == {<<>>} \cup {<<[t |-> "Info", infos |-> infos]>> : infos \in InfoLists}
        virtual == UNION {{name \o i \o l \o n, name \o l \o n \o i}
                          : <<i, l, n>> \in infoParts \X LinkParts \X NetnsParts}
        physical == UNION {{name \o i \o v, name \o v \o i}
                           : <<i, v>> \in PfInfoParts \X (VfParts \ {<<>>})}
    IN  {[link_layer_type |-> llt, index |-> 2, flags |-> U32(IFF_UP), nlas |-> b]
            : llt \in llts, b \in virtual \cup physical}
        \cup {[link_layer_type |-> ARPHRD_ETHER, index |-> 2, flags |-> U32(IFF_UP),
               nlas |-> <<[t |-> "Link", l |-> 1]>>]}

HasVfInfoList(msg) == \E i \in 1..Len(msg.nlas) : msg.nlas[i].t = "VfInfoList"

(***************************************************************************)
(* SpecParse: one link message is received and reduced.                    *)
(***************************************************************************)
ParseLinkMessage ==
    /\ nl_msg = EmptyMsg
    /\ \E msg \in LinkMessagesOf(LinkLayerTypes) :
       \E fs \in IF HasVfInfoList(msg) THEN SysfsTrees ELSE {<<>>} :
          /\ nl_msg' = msg
          /\ sysfs_net' = fs
          /\ parsed' = ParseWithCalls(msg, fs)
    /\ UNCHANGED <<snapVars, macVars, ipVars, createVars, fnVars>>

(***************************************************************************)
(* veth.rs: the veth peer pass over the interface map.                     *)
(***************************************************************************)
\* the first loop: index_to_name, keyed by format!("{}", iface.index)
IndexToName(states) ==
    [k \in {FormatU32(states[n].index) : n \in DOMAIN states} |->
        states[CHOOSE n \in DOMAIN states : FormatU32(states[n].index) = k].name]

\* a variant of the pass without the link_netnsid test
VethTidyUpIgnoresNetns(states) ==
    LET index_to_name == IndexToName(states)
    IN  [n \in DOMAIN states |->
            LET iface == states[n]
            IN  IF iface.iface_type # <<"Veth">> THEN iface
                ELSE IF IsSome(iface.veth) /\ iface.veth[1].peer \in DOMAIN index_to_name
                THEN [iface EXCEPT !.veth = Some([peer |-> index_to_name[iface.veth[1].peer]])]
                ELSE iface]

\* a variant of the pass that clears the veth record when the peer is not found
VethTidyUpDropsUnknownPeer(states) ==
    LET index_to_name == IndexToName(states)
    IN  [n \in DOMAIN states |->
            LET iface == states[n]
            IN  IF iface.iface_type # <<"Veth">> THEN iface
                ELSE IF IsSome(iface.link_netnsid) THEN iface
                ELSE IF IsSome(iface.veth) /\ iface.veth[1].peer \in DOMAIN index_to_name
                THEN [iface EXCEPT !.veth = Some([peer |-> index_to_name[iface.veth[1].peer]])]
                ELSE [iface EXCEPT !.veth = Some([peer |-> ""])]]

veth_iface_tidy_up(states) ==
    LET index_to_name == IndexToName(states)
    IN  [n \in DOMAIN states |->
            LET iface == states[n]
            IN  IF iface.iface_type # <<"Veth">> THEN iface
                ELSE IF IsSome(iface.link_netnsid) THEN iface
                ELSE IF IsSome(iface.veth) /\ iface.veth[1].peer \in DOMAIN index_to_name
                THEN [iface EXCEPT !.veth = Some([peer |-> index_to_name[iface.veth[1].peer]])]
                ELSE iface]

(***************************************************************************)
(* Spec: a link dump is reduced into the interface map, then the veth pass *)
(* runs over it.  Names and indices are unique within the dumped network   *)
(* namespace; a peer index may be that of no dumped interface.             *)
(***************************************************************************)
\* interface names; "2" is a name that reads as an interface index
IfaceNames == {"veth1", "eth0", "2"}

NoIfaces == [n \in {} |-> DefaultIface]

\* link messages of a dump: a veth with or without Link and NetnsId, or an
\* ethernet interface without Info
DumpMessages ==
    LET veth == <<[t |-> "Info", infos |-> <<[t |-> "Kind", kind |-> <<"Veth">>]>>]>>
        links == {<<>>} \cup {<<[t |-> "Link", l |-> l]>> : l \in 1..(MaxIndex + 1)}
    IN  {[link_layer_type |-> ARPHRD_ETHER, index |-> i, flags |-> U32(IFF_UP),
          nlas |-> <<[t |-> "IfName", name |-> n]>> \o veth \o l \o ns]
            : n \in IfaceNames, i \in 1..MaxIndex, l \in links, ns \in NetnsParts}
        \cup {[link_layer_type |-> ARPHRD_ETHER, index |-> i, flags |-> U32(IFF_UP),
               nlas |-> <<[t |-> "IfName", name |-> n]>>]
                : n \in IfaceNames, i \in 1..MaxIndex}

\* the Link attribute of a message, if it has one
LinkOf(msg) ==
    LET at == {i \in 1..Len(msg.nlas) : msg.nlas[i].t = "Link"}
    IN  IF at = {} THEN None ELSE Some(msg.nlas[CHOOSE i \in at : TRUE].l)

\* one turn of get_ifaces' loop over the link dump: the message is reduced and
\* the record inserted under its name
ReduceLinkMessage ==
    /\ phase = "links"
    /\ Cardinality(DOMAIN iface_states) < MaxIfaces
    /\ \E msg \in DumpMessages :
          LET r == parse_nl_msg_to_iface(msg, <<>>)
              name == _get_iface_name(msg)
          IN  /\ name \notin DOMAIN iface_states
              /\ \A n \in DOMAIN iface_states : iface_states[n].index # msg.index
              /\ r.ok /\ IsSome(r.v[1])
              /\ iface_states' = [n \in DOMAIN iface_states \cup {name} |->
                                     IF n = name THEN r.v[1][1] ELSE iface_states[n]]
              /\ peer_index' = [n \in DOMAIN iface_states \cup {name} |->
                                   IF n = name THEN LinkOf(msg) ELSE peer_index[n]]
    /\ UNCHANGED <<phase, reduced, first_pass, parseVars, macVars, ipVars, createVars, fnVars>>

\* the dump is over: veth_iface_tidy_up(&mut iface_states)
VethTidyUp ==
    /\ phase = "links"
    /\ phase' = "tidied"
    /\ reduced' = iface_states
    /\ iface_states' = veth_iface_tidy_up(iface_states)
    /\ UNCHANGED <<peer_index, first_pass, parseVars, macVars, ipVars, createVars, fnVars>>

\* veth_iface_tidy_up(&mut iface_states) applied to the map it returned: the
\* map after the first run is kept in first_pass
VethTidyUpAgain ==
    /\ phase = "tidied"
    /\ phase' = "tidied twice"
    /\ first_pass' = iface_states
    /\ iface_states' = veth_iface_tidy_up(iface_states)
    /\ UNCHANGED <<reduced, peer_index, parseVars, macVars, ipVars, createVars, fnVars>>

(***************************************************************************)
(* iface.rs: change_iface_state and change_iface_mac against the kernel.   *)
(* Every `.execute().await` is a request followed by the kernel's answer:  *)
(* accepted (the kernel applies it) or rejected (the `?` returns the       *)
(* error).                                                                 *)
(***************************************************************************)
\* mac_str_to_raw (mac.rs): the bytes of a colon-separated hex string, an
\* error for anything else
mac_str_to_raw(mac_address) ==
    CASE mac_address = "00:23:45:67:89:1a" -> Ok(<<0, 35, 69, 103, 137, 26>>)
      [] mac_address = "00:23:45:67:89:1b" -> Ok(<<0, 35, 69, 103, 137, 27>>)
      [] OTHER -> Err("mac_str_to_raw: invalid MAC address")

MacArguments == {"00:23:45:67:89:1a", "00:23:45:67:89:1b", "zz"}

SetLinkRequest(index, up) == [op |-> "set_link", index |-> index, up |-> up, address |-> <<>>]
SetAddressRequest(index, raw) ==
    [op |-> "set_address", index |-> index, up |-> FALSE, address |-> raw]

MacIdle == mac_pc \in {"idle", "returned"}

\* change_iface_state(handle, index, up) run to its end between two MAC
\* changes: one set-link request, which the kernel accepts or rejects
ChangeIfaceState ==
    /\ MacIdle
    /\ \E up \in BOOLEAN, accepted \in BOOLEAN :
          link_up' = IF accepted THEN up ELSE link_up
    /\ mac_pc' = "idle"
    /\ mac_ret' = ""
    /\ requests' = <<>>
    /\ replies' = <<>>
    /\ UNCHANGED <<mac_arg, link_mac, prior_up, mac_calls, parseVars, snapVars, ipVars, createVars, fnVars>>

\* change_iface_mac is called: change_iface_state(handle, index, false) issues
\* the link-down request
MacCall ==
    /\ MacIdle
    /\ mac_calls < MaxMacCalls
    /\ \E index \in 1..MaxIndex, mac_address \in MacArguments :
          /\ mac_arg' = [index |-> index, mac_address |-> mac_address]
          /\ requests' = <<SetLinkRequest(index, FALSE)>>
    /\ replies' = <<>>
    /\ prior_up' = link_up
    /\ mac_pc' = "await_down"
    /\ mac_ret' = ""
    /\ mac_calls' = mac_calls + 1
    /\ UNCHANGED <<link_up, link_mac, parseVars, snapVars, ipVars, createVars, fnVars>>

\* a variant in which a rejected link-down request does not end the call
MacDownRejectedGoesOn ==
    /\ mac_pc = "await_down"
    /\ replies' = Append(replies, "rejected")
    /\ LET raw == mac_str_to_raw(mac_arg.mac_address)
       IN  IF raw.ok
           THEN /\ requests' = Append(requests, SetAddressRequest(mac_arg.index, raw.v[1]))
                /\ mac_pc' = "await_set"
                /\ mac_ret' = ""
           ELSE /\ requests' = requests
                /\ mac_pc' = "returned"
                /\ mac_ret' = "err_mac_str"
    /\ UNCHANGED <<mac_arg, link_up, link_mac, prior_up, mac_calls, parseVars, snapVars,
                   ipVars, createVars, fnVars>>

\* the kernel rejects the link-down request: `?` returns the error
MacDownRejected ==
    /\ mac_pc = "await_down"
    /\ replies' = Append(replies, "rejected")
    /\ mac_pc' = "returned"
    /\ mac_ret' = "err_down"
    /\ UNCHANGED <<mac_arg, link_up, link_mac, prior_up, requests, mac_calls, parseVars,
                   snapVars, ipVars, createVars, fnVars>>

\* a variant that issues the set-address request without the link being down
MacDownSkipped ==
    /\ mac_pc = "await_down"
    /\ replies' = Append(replies, "accepted")
    /\ link_up' = link_up
    /\ LET raw == mac_str_to_raw(mac_arg.mac_address)
       IN  IF raw.ok
           THEN /\ requests' = Append(requests, SetAddressRequest(mac_arg.index, raw.v[1]))
                /\ mac_pc' = "await_set"
                /\ mac_ret' = ""
           ELSE /\ requests' = requests
                /\ mac_pc' = "returned"
                /\ mac_ret' = "err_mac_str"
    /\ UNCHANGED <<mac_arg, link_mac, prior_up, mac_calls, parseVars, snapVars, ipVars, createVars, fnVars>>

\* the kernel accepts the link-down request; the call goes on to
\* mac_str_to_raw(mac_address)? and, if that succeeds, issues set-address
MacDownAccepted ==
    /\ mac_pc = "await_down"
    /\ replies' = Append(replies, "accepted")
    /\ link_up' = FALSE
    /\ LET raw == mac_str_to_raw(mac_arg.mac_address)
       IN  IF raw.ok
           THEN /\ requests' = Append(requests, SetAddressRequest(mac_arg.index, raw.v[1]))
                /\ mac_pc' = "await_set"
                /\ mac_ret' = ""
           ELSE /\ requests' = requests
                /\ mac_pc' = "returned"
                /\ mac_ret' = "err_mac_str"
    /\ UNCHANGED <<mac_arg, link_mac, prior_up, mac_calls, parseVars, snapVars, ipVars, createVars, fnVars>>

\* the kernel rejects the set-address request: `?` returns the error
MacSetRejected ==
    /\ mac_pc = "await_set"
    /\ replies' = Append(replies, "rejected")
    /\ mac_pc' = "returned"
    /\ mac_ret' = "err_set"
    /\ UNCHANGED <<mac_arg, link_up, link_mac, prior_up, requests, mac_calls, parseVars,
                   snapVars, ipVars, createVars, fnVars>>

\* the kernel accepts the set-address request: Ok(())
MacSetAccepted ==
    /\ mac_pc = "await_set"
    /\ replies' = Append(replies, "accepted")
    /\ link_mac' = requests[Len(requests)].address
    /\ mac_pc' = "returned"
    /\ mac_ret' = "ok"
    /\ UNCHANGED <<mac_arg, link_up, prior_up, requests, mac_calls, parseVars, snapVars,
                   ipVars, createVars, fnVars>>

(***************************************************************************)
(* The address cycle of crate_tests/ip.rs on veth1: NetConf::apply of a    *)
(* document, NetState::retrieve, and the kernel's lifetime countdown.      *)
(* The apply and retrieve code (ip.rs, net_conf.rs, net_state.rs) is       *)
(* modelled from the specification: address entries are deltas, an entry   *)
(* without `remove` adds the address or replaces its lifetimes, an entry   *)
(* with `remove: true` deletes it, and a family without addresses is       *)
(* reported as absent.                                                     *)
(***************************************************************************)
Forever == <<"forever">>
Seconds(n) == <<"sec", n>>

\* a lifetime of a document: the literal forever or <N>sec; a missing
\* lifetime is forever
ParseLifetime(text) ==
    CASE text = "" -> Forever
      [] text = "forever" -> Forever
      [] text = "120sec" -> Seconds(120)
      [] text = "121sec" -> Seconds(121)
      [] text = "60sec" -> Seconds(60)
      [] text = "61sec" -> Seconds(61)

\* a lifetime as the snapshot reports it
FormatLifetime(lft) ==
    IF lft = Forever THEN "forever" ELSE FormatU32(lft[2]) \o "sec"

ConfAddr(address, prefix_len, valid_lft, preferred_lft, remove) ==
    [address |-> address, prefix_len |-> prefix_len, valid_lft |-> valid_lft,
     preferred_lft |-> preferred_lft, remove |-> remove]

ADD_IP_CONF ==
    [id |-> "ADD_IP_CONF", name |-> "veth1",
     ipv4 |-> <<ConfAddr("192.0.2.1", 24, "", "", FALSE)>>,
     ipv6 |-> <<ConfAddr("2001:db8:a::9", 64, "", "", FALSE)>>]

ADD_IP_CONF_DYNAMIC ==
    [id |-> "ADD_IP_CONF_DYNAMIC", name |-> "veth1",
     ipv4 |-> <<ConfAddr("192.0.2.1", 24, "120sec", "60sec", FALSE)>>,
     ipv6 |-> <<ConfAddr("2001:db8:a::9", 64, "121sec", "61sec", FALSE)>>]

DEL_IP_CONF ==
    [id |-> "DEL_IP_CONF", name |-> "veth1",
     ipv4 |-> <<ConfAddr("192.0.2.1", 24, "", "", TRUE)>>,
     ipv6 |-> <<ConfAddr("2001:db8:a::9", 64, "", "", TRUE)>>]

\* the link-local address the kernel derives from the test harness's MAC
LinkLocal ==
    [address |-> "fe80::223:45ff:fe67:891a", prefix_len |-> 64, valid_lft |-> Forever,
     preferred_lft |-> Forever, link_local |-> TRUE]

KernelAddr(e) ==
    [address |-> e.address, prefix_len |-> e.prefix_len,
     valid_lft |-> ParseLifetime(e.valid_lft),
     preferred_lft |-> ParseLifetime(e.preferred_lft), link_local |-> FALSE]

SameAddr(a, e) == a.address = e.address /\ a.prefix_len = e.prefix_len

Holds(list, e) == \E i \in 1..Len(list) : SameAddr(list[i], e)

\* a variant of the add that appends without looking for the address
AddOrReplaceAppends(list, e) ==
    LET isGlobal(a) == ~a.link_local
        isLocal(a) == a.link_local
    IN  SelectSeq(list, isGlobal) \o <<KernelAddr(e)>> \o SelectSeq(list, isLocal)

\* one add/update entry against the kernel's list of a family: an address
\* held already gets the entry's lifetimes in place, a new one goes after the
\* configured addresses and before the link-local ones
AddOrReplace(list, e) ==
    LET isGlobal(a) == ~a.link_local
        isLocal(a) == a.link_local
    IN  IF Holds(list, e)
        THEN [i \in 1..Len(list) |-> IF SameAddr(list[i], e) THEN KernelAddr(e) ELSE list[i]]
        ELSE SelectSeq(list, isGlobal) \o <<KernelAddr(e)>> \o SelectSeq(list, isLocal)

\* one `remove: true` entry
Remove(list, e) ==
    LET keep(a) == ~SameAddr(a, e)
    IN  SelectSeq(list, keep)

\* the entries of one family applied in document order
RECURSIVE ApplyEntries(_, _, _)
ApplyEntries(list, entries, i) ==
    IF i > Len(entries) THEN list
    ELSE ApplyEntries(IF entries[i].remove THEN Remove(list, entries[i])
                      ELSE AddOrReplace(list, entries[i]),
                      entries, i + 1)

\* the address records of a snapshot for one family
ReportAddrs(list) ==
    [i \in 1..Len(list) |->
        [address |-> list[i].address, prefix_len |-> list[i].prefix_len,
         valid_lft |-> FormatLifetime(list[i].valid_lft),
         preferred_lft |-> FormatLifetime(list[i].preferred_lft)]]

\* the family sub-record of a snapshot: absent when the kernel sent no address
ReportFamily(list) ==
    IF Len(list) = 0 THEN None ELSE Some([addresses |-> ReportAddrs(list)])

Documents == {ADD_IP_CONF, ADD_IP_CONF_DYNAMIC, DEL_IP_CONF}

\* every address a `remove` entry of the document names is in the kernel
Removable(doc) ==
    /\ \A i \in 1..Len(doc.ipv4) : doc.ipv4[i].remove => Holds(kaddrs.ipv4, doc.ipv4[i])
    /\ \A i \in 1..Len(doc.ipv6) : doc.ipv6[i].remove => Holds(kaddrs.ipv6, doc.ipv6[i])

\* conf.apply().unwrap()
Apply ==
    /\ \E doc \in Documents :
          /\ Removable(doc)
          /\ run_len < MaxApplies \/ doc.id # last_doc
          /\ kaddrs' = [ipv4 |-> ApplyEntries(kaddrs.ipv4, doc.ipv4, 1),
                        ipv6 |-> ApplyEntries(kaddrs.ipv6, doc.ipv6, 1)]
          /\ last_doc' = doc.id
          /\ run_len' = IF doc.id = last_doc THEN run_len + 1 ELSE 1
          /\ first_snap' = IF doc.id = last_doc THEN first_snap ELSE None
          /\ before' = Some(kaddrs)
    /\ fresh' = TRUE
    /\ snap' = None
    /\ UNCHANGED <<now, parseVars, snapVars, macVars, createVars, fnVars>>

\* the link message of veth1, one end of the veth pair the tests set up
Veth1LinkMessage ==
    [link_layer_type |-> ARPHRD_ETHER, index |-> 2, flags |-> U32(IFF_UP),
     nlas |-> <<[t |-> "IfName", name |-> "veth1"],
                [t |-> "Info", infos |-> <<[t |-> "Kind", kind |-> <<"Veth">>]>>],
                [t |-> "Link", l |-> 1]>>]

\* NetState::retrieve().unwrap(), the record of veth1: the reducer's record of
\* its link message with the address families of the address dump
Retrieve ==
    /\ snap = None
    /\ snap' = Some([iface_type |-> parse_nl_msg_to_iface(Veth1LinkMessage, <<>>).v[1][1].iface_type,
                     ipv4 |-> ReportFamily(kaddrs.ipv4),
                     ipv6 |-> ReportFamily(kaddrs.ipv6)])
    /\ first_snap' = IF run_len = 1 /\ fresh THEN snap' ELSE first_snap
    /\ UNCHANGED <<kaddrs, now, last_doc, run_len, fresh, before, parseVars, snapVars,
                   macVars, createVars, fnVars>>

\* a second passes: the kernel counts every finite lifetime down
Tick ==
    /\ now < MaxTime
    /\ now' = now + 1
    /\ LET down(lft) == IF lft = Forever THEN lft ELSE Seconds(lft[2] - 1)
           age(list) == [i \in 1..Len(list) |->
                           [list[i] EXCEPT !.valid_lft = down(@), !.preferred_lft = down(@)]]
       IN  kaddrs' = [ipv4 |-> age(kaddrs.ipv4), ipv6 |-> age(kaddrs.ipv6)]
    /\ fresh' = FALSE
    /\ snap' = None
    /\ UNCHANGED <<last_doc, run_len, first_snap, before, parseVars, snapVars, macVars, createVars, fnVars>>

(***************************************************************************)
(* sriov.rs: the SR-IOV VF pass over the interface map.                    *)
(***************************************************************************)
\* HashMap::insert
Put(dict, k, v) == [x \in DOMAIN dict \cup {k} |-> IF x = k THEN v ELSE dict[x]]

\* `for vf_info in sriov_conf.vfs.as_slice()`: the entries from i on
RECURSIVE InsertVfs(_, _, _)
InsertVfs(dict, vfs, i) ==
    IF i > Len(vfs) THEN dict
    ELSE InsertVfs(IF IsSome(vfs[i].iface_name)
                   THEN Put(dict, Unwrap(vfs[i].iface_name), vfs[i])
                   ELSE dict,
                   vfs, i + 1)

\* `for iface in iface_states.values()`: vf_info_dict after the interfaces
\* from position i of the iteration order on
RECURSIVE VfInfoDict(_, _, _, _)
VfInfoDict(states, order, i, dict) ==
    IF i > Len(order) THEN dict
    ELSE VfInfoDict(states, order, i + 1,
                    IF IsSome(states[order[i]].sriov)
                    THEN InsertVfs(dict, Unwrap(states[order[i]].sriov).vfs, 1)
                    ELSE dict)

\* `for (vf_name, vf_info) in vf_info_dict.drain()`
FillSriovVf(states, dict) ==
    [n \in DOMAIN states |->
        IF n \in DOMAIN dict THEN [states[n] EXCEPT !.sriov_vf = Some(dict[n])]
        ELSE states[n]]

\* a variant that files every VF entry under the name of its PF
SriovVfTidyUpUnderPfName(states, order) ==
    LET dict == [n \in {m \in DOMAIN states : IsSome(states[m].sriov)
                                              /\ Len(Unwrap(states[m].sriov).vfs) > 0} |->
                    Unwrap(states[n].sriov).vfs[Len(Unwrap(states[n].sriov).vfs)]]
    IN  FillSriovVf(states, dict)

\* sriov_vf_iface_tidy_up(iface_states); order is the order in which
\* iface_states.values() yields the interfaces
sriov_vf_iface_tidy_up(states, order) ==
    FillSriovVf(states, VfInfoDict(states, order, 1, [n \in {} |-> DefaultVfInfo]))

\* a PF-side VF entry: the id-th VF of pf, with or without an interface name
VfEntry(pf, id, iface_name) ==
    [DefaultVfInfo EXCEPT !.id = U32(id), !.pf_name = Some(pf), !.iface_name = iface_name]

\* the VF lists of a PF: up to MaxVfs entries, ids in order, each without a
\* name or naming "eth0v0" or "eth2"
VfNameChoices == {None, Some("eth0v0"), Some("eth2")}

VfLists(pf) ==
    UNION {{[i \in 1..k |-> VfEntry(pf, i - 1, c[i])] : c \in [1..k -> VfNameChoices]}
           : k \in 0..MaxVfs}

Plain(name, index) == [DefaultIface EXCEPT !.name = name, !.index = index,
                                           !.iface_type = <<"Ethernet">>]

\* interface maps: the PF "eth0", with or without a second PF "eth1", with or
\* without interfaces named "eth0v0" and "eth2"
VfMaps ==
    {[n \in {"eth0"} \cup others |->
        CASE n = "eth0" -> [Plain(n, 1) EXCEPT !.sriov = Some([vfs |-> l0])]
          [] n = "eth1" -> [Plain(n, 2) EXCEPT !.sriov = Some([vfs |-> l1])]
          [] n = "eth0v0" -> Plain(n, 3)
          [] n = "eth2" -> Plain(n, 4)]
        : l0 \in VfLists("eth0"), l1 \in VfLists("eth1"),
          others \in SUBSET {"eth1", "eth0v0", "eth2"}}

\* the orders in which a HashMap of the given keys may yield its values
Orders(keys) ==
    {o \in [1..Cardinality(keys) -> keys] : \A i, j \in 1..Cardinality(keys) : o[i] = o[j] => i = j}

\* sriov_vf_iface_tidy_up applied to an interface map
SriovVfTidyUp ==
    /\ fn_call = <<>>
    /\ \E states \in VfMaps : \E order \in Orders(DOMAIN states) :
          /\ fn_call' = <<"sriov_vf_iface_tidy_up", states>>
          /\ fn_ret' = sriov_vf_iface_tidy_up(states, order)
    /\ UNCHANGED <<parseVars, snapVars, macVars, ipVars, createVars>>

(***************************************************************************)
(* veth.rs: VethConf::create against the kernel.                           *)
(***************************************************************************)
\* NisporError::bug(message) (error.rs): an error of kind NisporBug
NisporErrorBug(message) == [ok |-> FALSE, kind |-> "NisporBug", msg |-> message]

\* the names a veth pair is created under
CreateNames == {"veth1", "veth1.peer", "eth0"}

\* handle.link().add().veth(name, peer)
AddVethRequest(name, peer) == [op |-> "add_veth", name |-> name, peer |-> peer]

\* the kernel takes a new pair when neither name is taken
KernelTakes(req) ==
    req.name # req.peer /\ req.name \notin klinks /\ req.peer \notin klinks

\* the error the kernel rejects the request with
KernelError(req) == IF KernelTakes(req) THEN "EPERM" ELSE "EEXIST"

\* VethConf::create(&self, handle, name) is called: the add request is issued
CreateCall ==
    /\ create_pc \in {"idle", "returned"}
    /\ \E name \in CreateNames, peer \in CreateNames :
          /\ create_arg' = [name |-> name, peer |-> peer]
          /\ create_requests' = <<AddVethRequest(name, peer)>>
    /\ create_pc' = "await_add"
    /\ create_ret' = None
    /\ UNCHANGED <<klinks, parseVars, snapVars, macVars, ipVars, fnVars>>

\* the kernel accepts: Ok(_) => Ok(())
CreateAccepted ==
    /\ create_pc = "await_add"
    /\ KernelTakes(create_requests[1])
    /\ klinks' = klinks \cup {create_requests[1].name, create_requests[1].peer}
    /\ create_pc' = "returned"
    /\ create_ret' = Some([ok |-> TRUE, kind |-> "", msg |-> <<>>])
    /\ UNCHANGED <<create_arg, create_requests, parseVars, snapVars, macVars, ipVars, fnVars>>

\* the kernel rejects: Err(e) => Err(NisporError::bug(format!(..)))
CreateRejected ==
    /\ create_pc = "await_add"
    /\ create_pc' = "returned"
    /\ create_ret' = Some(NisporErrorBug(<<"Failed to create new veth pair '", create_arg.name,
                                           "' '", create_arg.peer, "': ",
                                           KernelError(create_requests[1])>>))
    /\ UNCHANGED <<create_arg, create_requests, klinks, parseVars, snapVars, macVars, ipVars,
                   fnVars>>

\* between two calls a link of the kernel is deleted
DeleteLink ==
    /\ create_pc \in {"idle", "returned"}
    /\ \E n \in klinks : klinks' = klinks \ {n}
    /\ UNCHANGED <<create_pc, create_arg, create_requests, create_ret, parseVars, snapVars,
                   macVars, ipVars, fnVars>>

(***************************************************************************)
(* Initial state and the specifications.                                   *)
(***************************************************************************)
Init ==
    /\ nl_msg = EmptyMsg
    /\ sysfs_net = <<>>
    /\ parsed = ParseWithCalls(EmptyMsg, <<>>)
    /\ phase = "links"
    /\ iface_states = NoIfaces
    /\ reduced = NoIfaces
    /\ peer_index = [n \in {} |-> None]
    /\ mac_pc = "idle"
    /\ mac_arg = [index |-> 1, mac_address |-> ""]
    /\ link_up = TRUE
    /\ link_mac = <<0, 35, 69, 103, 137, 26>>
    /\ prior_up = link_up
    /\ requests = <<>>
    /\ replies = <<>>
    /\ mac_ret = ""
    /\ mac_calls = 0
    /\ kaddrs = [ipv4 |-> <<>>, ipv6 |-> <<LinkLocal>>]
    /\ now = 0
    /\ last_doc = ""
    /\ run_len = 0
    /\ first_snap = None
    /\ snap = None
    /\ fresh = FALSE
    /\ before = None
    /\ first_pass = None
    /\ create_pc = "idle"
    /\ create_arg = [name |-> "", peer |-> ""]
    /\ create_requests = <<>>
    /\ create_ret = None
    /\ klinks = {}
    /\ fn_call = <<>>
    /\ fn_ret = <<>>

\* retrieval: the link dump is reduced, then the veth pass runs
Next == ReduceLinkMessage \/ VethTidyUp

Spec == Init /\ [][Next]_vars

\* the veth pass applied twice to the map of a link dump
NextTwice == ReduceLinkMessage \/ VethTidyUp \/ VethTidyUpAgain

SpecTwice == Init /\ [][NextTwice]_vars

\* the reducer on one link message
NextParse == ParseLinkMessage

SpecParse == Init /\ [][NextParse]_vars

\* the MAC change sequence against the kernel
NextMac ==
    \/ ChangeIfaceState
    \/ MacCall
    \/ MacDownAccepted
    \/ MacDownRejected
    \/ MacSetAccepted
    \/ MacSetRejected

SpecMac == Init /\ [][NextMac]_vars

\* the address cycle on veth1
NextIp == Apply \/ Retrieve \/ Tick

SpecIp == Init /\ [][NextIp]_vars

\* the veth pair creation against the kernel
NextCreate == CreateCall \/ CreateAccepted \/ CreateRejected \/ DeleteLink

SpecCreate == Init /\ [][NextCreate]_vars

(***************************************************************************)
(* The conversions of kernel-sourced enumerated values.                    *)
(***************************************************************************)
\* 32-bit values around the named ones, the sign bit and the all-ones value
U32Samples == {<<hi, lo>> : hi \in {0, 1, 32767, 32768, HALF_MAX}, lo \in {0, 1, 2, 3, HALF_MAX - 1, HALF_MAX}}

\* controller kind strings: the four named ones, other kernel kinds and
\* near-misses
KindStrings == {"bond", "bridge", "vrf", "openvswitch", "team", "Bond", "bonding", ""}

\* the values of nlas::State; Other carries the raw byte
States ==
    {<<"Up">>, <<"Dormant">>, <<"Down">>, <<"LowerLayerDown">>, <<"Unknown">>,
     <<"NotPresent">>, <<"Testing">>, <<"Other", 7>>}

\* link messages with or without an operational state and an Info attribute
EnumMessages ==
    {[link_layer_type |-> ARPHRD_ETHER, index |-> 2, flags |-> U32(IFF_UP),
      nlas |-> <<[t |-> "IfName", name |-> "eth0"]>> \o st \o i]
        : st \in {<<>>} \cup {<<[t |-> "OperState", state |-> x]>> : x \in States},
          i \in {<<>>} \cup {<<[t |-> "Info", infos |-> infos]>> : infos \in InfoLists}}

\* VfLinkState::from(d)
ConvertVfLinkState ==
    /\ fn_call = <<>>
    /\ \E d \in U32Samples :
          /\ fn_call' = <<"VfLinkState::from", d>>
          /\ fn_ret' = VfLinkStateFrom(d)
    /\ UNCHANGED <<parseVars, snapVars, macVars, ipVars, createVars>>

\* ControllerType::from(s)
ConvertControllerType ==
    /\ fn_call = <<>>
    /\ \E str \in KindStrings :
          /\ fn_call' = <<"ControllerType::from", str>>
          /\ fn_ret' = ControllerTypeFrom(str)
    /\ UNCHANGED <<parseVars, snapVars, macVars, ipVars, createVars>>

\* parse_nl_msg_to_iface on a message carrying enumerated values
ParseEnumMessage ==
    /\ fn_call = <<>>
    /\ nl_msg = EmptyMsg
    /\ \E msg \in EnumMessages :
          /\ nl_msg' = msg
          /\ parsed' = ParseWithCalls(msg, <<>>)
          /\ fn_call' = <<"parse_nl_msg_to_iface", "enum">>
          /\ fn_ret' = parse_nl_msg_to_iface(msg, <<>>)
    /\ UNCHANGED <<sysfs_net, snapVars, macVars, ipVars, createVars>>

(***************************************************************************)
(* get_sriov_info on VF tables.                                            *)
(***************************************************************************)
\* 32-bit values of a VF boolean attribute: zero, one, values with one half
\* zero or all ones, the sign bit, the all-ones value and its neighbour
BoolSamples ==
    {U32(0), U32(1), <<0, HALF_MAX>>, <<1, 0>>, <<32768, 0>>, <<HALF_MAX, 0>>,
     <<HALF_MAX, HALF_MAX - 1>>, U32_MAX}

\* a table of one VF (id 0) with the three boolean attributes
BoolVfTable(spoofchk, rss, trust) ==
    <<[hdr_ok |-> TRUE,
       nlas |-> <<VfNla(IFLA_VF_MAC, <<U32(0)>>, 32),
                  VfNla(IFLA_VF_SPOOFCHK, <<U32(0), spoofchk>>, 0),
                  VfNla(IFLA_VF_RSS_QUERY_EN, <<U32(0), rss>>, 0),
                  VfNla(IFLA_VF_TRUST, <<U32(0), trust>>, 0)>>]>>

BoolVfTables == {BoolVfTable(a, b, c) : a, b, c \in BoolSamples}

\* seq with x put after its first p elements
InsertAt(seq, p, x) == SubSeq(seq, 1, p) \o <<x>> \o SubSeq(seq, p + 1, Len(seq))

\* well-formed attributes of kinds get_sriov_info does not name: IFLA_VF_UNSPEC
\* and kinds above IFLA_VF_BROADCAST
UnknownVfNlas == {VfNla(0, <<>>, 0), VfNla(14, <<U32(0), U32(5)>>, 0), VfNla(99, <<>>, 3)}

\* and of kinds parse_vf_stats does not name: IFLA_VF_STATS_PAD and a kind
\* above IFLA_VF_STATS_TX_DROPPED
UnknownStatsNlas == {VfNla(6, <<>>, 0), VfNla(9, <<U32(1), U32(0)>>, 0)}

\* the VF entry with an unknown attribute among the attributes of its
\* statistics block, if it has one
WithUnknownStats(entry) ==
    UNION {{[entry EXCEPT !.nlas[i].stats = InsertAt(@, p, u)]
               : p \in 0..Len(entry.nlas[i].stats), u \in UnknownStatsNlas}
           : i \in {j \in 1..Len(entry.nlas) : entry.nlas[j].kind = IFLA_VF_STATS}}

\* the tables of one VF entry with an unknown attribute added to the entry,
\* to its statistics block, or to both
WithUnknown(raw) ==
    LET inEntry(e) == {[e EXCEPT !.nlas = InsertAt(@, p, u)]
                          : p \in 0..Len(e.nlas), u \in UnknownVfNlas}
    IN  {<<e>> : e \in inEntry(raw[1]) \cup WithUnknownStats(raw[1])
                       \cup UNION {inEntry(x) : x \in WithUnknownStats(raw[1])}}

\* the VF tables get_sriov_info is applied to
FnVfTables ==
    VfTables \cup BoolVfTables \cup WithUnknown(GoodVfTable) \cup WithUnknown(ShortSpoofchkVfTable)

\* get_sriov_info(pf_iface_name, raw, iface_type) of the PF "eth0"
GetSriovInfo ==
    /\ fn_call = <<>>
    /\ \E raw \in FnVfTables : \E fs \in SysfsTrees :
       \E iface_type \in {<<"Ethernet">>, <<"Infiniband">>, <<"Unknown">>} :
          /\ fn_call' = <<"get_sriov_info", raw, fs, iface_type>>
          /\ sysfs_net' = fs
          /\ fn_ret' = get_sriov_info(fs, "eth0", raw, iface_type)
    /\ UNCHANGED <<nl_msg, parsed, snapVars, macVars, ipVars, createVars>>

(***************************************************************************)
(* _parse_iface_flags on header flags.                                     *)
(***************************************************************************)
\* header flags: in the low half no bit, each single bit, all bits, and
\* some mixes (0x1043 is UP|BROADCAST|RUNNING|MULTICAST, 0x8020 holds only
\* bits the reducer does not name); in the high half LOWER_UP, DORMANT, ECHO
\* and bits above them
FlagSamples ==
    {<<hi, lo>> : hi \in {0, 1, 2, 3, 4, 7, 32768, HALF_MAX},
                  lo \in {0, 1, 2, 4, 8, 16, 32, 64, 128, 256, 512, 1024, 2048, 4096,
                          8192, 16384, 32768, 4163, 2080, 10240, 32800, HALF_MAX}}

\* _parse_iface_flags(flags)
ParseIfaceFlags ==
    /\ fn_call = <<>>
    /\ \E flags \in FlagSamples :
          /\ fn_call' = <<"_parse_iface_flags", flags>>
          /\ fn_ret' = _parse_iface_flags(flags)
    /\ UNCHANGED <<parseVars, snapVars, macVars, ipVars, createVars>>

(***************************************************************************)
(* parse_nl_msg_to_iface on messages carrying MTU attributes.              *)
(***************************************************************************)
\* 32-bit MTU values: zero, usual ones, and values around 2^16, 2^31, 2^32
MtuSamples ==
    {U32(0), U32(1500), <<0, HALF_MAX>>, <<1, 0>>, <<32767, HALF_MAX>>, <<32768, 0>>, U32_MAX}

\* link messages with or without each of Mtu, MinMtu and MaxMtu
MtuMessages ==
    LET part(t) == {<<>>} \cup {<<[t |-> t, mtu |-> d]>> : d \in MtuSamples}
    IN  {[link_layer_type |-> ARPHRD_ETHER, index |-> 2, flags |-> U32(IFF_UP),
          nlas |-> <<[t |-> "IfName", name |-> "eth0"]>> \o a \o b \o c]
            : a \in part("Mtu"), b \in part("MinMtu"), c \in part("MaxMtu")}

\* parse_nl_msg_to_iface on a message carrying MTU attributes
ParseMtuMessage ==
    /\ fn_call = <<>>
    /\ nl_msg = EmptyMsg
    /\ \E msg \in MtuMessages :
          /\ nl_msg' = msg
          /\ parsed' = ParseWithCalls(msg, <<>>)
          /\ fn_call' = <<"parse_nl_msg_to_iface", "mtu">>
          /\ fn_ret' = parse_nl_msg_to_iface(msg, <<>>)
    /\ UNCHANGED <<sysfs_net, snapVars, macVars, ipVars, createVars>>

(***************************************************************************)
(* parse_nl_msg_to_iface on messages whose attributes come in any order.   *)
(***************************************************************************)
\* the elements of seq in the order o, a permutation of its positions
Reordered(seq, o) == [i \in 1..Len(seq) |-> seq[o[i]]]

\* Info sub-attribute lists in the kernel's order, each sub-attribute at most
\* once: the kinds whose per-kind record takes the link index, a kind whose
\* decoder error is dropped, and a kind the reducer does not name
OrderedInfoLists ==
    LET kinds == {<<"Bond">>, <<"Veth">>, <<"Vlan">>, <<"MacVlan">>, <<"Ipoib">>,
                  <<"Tun">>, <<"Other", "foo">>}
        ports == {<<"Bond">>, <<"Other", "bridge">>, <<"Other", "team">>}
        kindPart == {<<>>} \cup {<<[t |-> "Kind", kind |-> k]>> : k \in kinds}
        dataPart == {<<>>} \cup {<<[t |-> "Data", d |-> b]>> : b \in Blocks}
        portPart == {<<>>}
                    \cup {<<[t |-> "PortKind", kind |-> k]>> : k \in ports}
                    \cup UNION {{<<[t |-> "PortKind", kind |-> k], [t |-> "PortData", d |-> pd]>>
                                 : pd \in PortDataFor(k)} : k \in ports}
    IN  {k \o d \o p : k \in kindPart, d \in dataPart, p \in portPart}

\* where a Link attribute stands: nowhere, before Info or after it
LinkPlaces == {"none", "before Info", "after Info"}

\* the link message with one Info attribute holding the given sub-attributes
\* and a Link attribute at the given place
PermutedMessage(infos, place) ==
    [link_layer_type |-> ARPHRD_ETHER, index |-> 2, flags |-> U32(IFF_UP),
     nlas |-> <<[t |-> "IfName", name |-> "eth0"]>>
              \o (IF place = "before Info" THEN <<[t |-> "Link", l |-> MaxIndex + 9]>> ELSE <<>>)
              \o <<[t |-> "Info", infos |-> infos]>>
              \o (IF place = "after Info" THEN <<[t |-> "Link", l |-> MaxIndex + 9]>> ELSE <<>>)]

\* parse_nl_msg_to_iface on a message with its attributes in some order
ParsePermutedMessage ==
    /\ fn_call = <<>>
    /\ nl_msg = EmptyMsg
    /\ \E infos \in OrderedInfoLists : \E o \in Orders(1..Len(infos)) : \E place \in LinkPlaces :
          /\ nl_msg' = PermutedMessage(Reordered(infos, o), place)
          /\ parsed' = ParseWithCalls(PermutedMessage(Reordered(infos, o), place), <<>>)
          /\ fn_call' = <<"parse_nl_msg_to_iface", "order">>
          /\ fn_ret' = parse_nl_msg_to_iface(PermutedMessage(Reordered(infos, o), place), <<>>)
    /\ UNCHANGED <<sysfs_net, snapVars, macVars, ipVars, createVars>>

\* one function applied to one input
NextFn ==
    \/ ParsePermutedMessage
    \/ ParseMtuMessage
    \/ ParseIfaceFlags
    \/ GetSriovInfo
    \/ SriovVfTidyUp
    \/ ConvertVfLinkState
    \/ ConvertControllerType
    \/ ParseEnumMessage

SpecFn == Init /\ [][NextFn]_vars

(***************************************************************************)
(* Properties of the veth pass (Spec).                                     *)
(***************************************************************************)
\* the veth interfaces of the snapshot that carry a peer record
VethsWithPeer ==
    {n \in DOMAIN iface_states :
        /\ iface_states[n].iface_type = <<"Veth">>
        /\ IsSome(iface_states[n].veth)
        /\ IsSome(peer_index[n])}

\* the names of the snapshot's interfaces of index i
NamesOfIndex(i) == {m \in DOMAIN iface_states : iface_states[m].index = i}

\* C1: after veth_iface_tidy_up, a veth interface whose link-netns-id is unset
\* and whose recorded peer index is the index of an interface of the snapshot
\* has that interface's name as veth.peer; a veth interface whose
\* link-netns-id is set still has the decimal string of the recorded peer
\* index as veth.peer.
C1_VethPeerResolved ==
    phase = "tidied" =>
        \A n \in VethsWithPeer :
            /\ ~IsSome(iface_states[n].link_netnsid) =>
                  \A m \in NamesOfIndex(peer_index[n][1]) :
                      iface_states[n].veth[1].peer = m
            /\ IsSome(iface_states[n].link_netnsid) =>
                  iface_states[n].veth[1].peer = ToString(peer_index[n][1])

\* a snapshot where one veth got its peer's name and another, whose
\* link-netns-id is set and whose peer index is also a local index, kept the
\* index string
C1_Witness ==
    /\ phase = "tidied"
    /\ \E n \in VethsWithPeer :
          /\ ~IsSome(iface_states[n].link_netnsid)
          /\ NamesOfIndex(peer_index[n][1]) # {}
          /\ iface_states[n].veth[1].peer \in NamesOfIndex(peer_index[n][1])
          /\ iface_states[n].veth[1].peer # reduced[n].veth[1].peer
    /\ \E n \in VethsWithPeer :
          /\ IsSome(iface_states[n].link_netnsid)
          /\ NamesOfIndex(peer_index[n][1]) # {}
          /\ iface_states[n].veth[1].peer = ToString(peer_index[n][1])

\* C2 as stated: after the pass, veth.peer of every veth interface is the name
\* of an interface of the snapshot, or it is the raw index string and the
\* interface's link-netns-id is set.
C2_PeerIsNameOrRemote ==
    phase = "tidied" =>
        \A n \in VethsWithPeer :
            \/ iface_states[n].veth[1].peer \in DOMAIN iface_states
            \/ /\ iface_states[n].veth[1].peer = ToString(peer_index[n][1])
               /\ IsSome(iface_states[n].link_netnsid)

\* C2 amended: after the pass, veth.peer of a veth interface whose
\* link-netns-id is unset is the name of the snapshot's interface of the
\* recorded peer index when there is one, and the raw index string only when
\* no interface of the snapshot has that index; with link-netns-id set it is
\* the raw index string.
C2_PeerIsNameOrUnresolved ==
    phase = "tidied" =>
        \A n \in VethsWithPeer :
            IF IsSome(iface_states[n].link_netnsid)
            THEN iface_states[n].veth[1].peer = ToString(peer_index[n][1])
            ELSE IF NamesOfIndex(peer_index[n][1]) # {}
            THEN iface_states[n].veth[1].peer \in NamesOfIndex(peer_index[n][1])
            ELSE iface_states[n].veth[1].peer = ToString(peer_index[n][1])

\* a veth whose link-netns-id is unset and whose peer index is that of no
\* interface of the snapshot: the raw index string remains
C2_Witness ==
    /\ phase = "tidied"
    /\ \E n \in VethsWithPeer :
          /\ ~IsSome(iface_states[n].link_netnsid)
          /\ NamesOfIndex(peer_index[n][1]) = {}
          /\ iface_states[n].veth[1].peer = ToString(peer_index[n][1])
          /\ iface_states[n].veth[1].peer \notin DOMAIN iface_states

(***************************************************************************)
(* Properties of the reducer on one link message (SpecParse).              *)
(***************************************************************************)
\* the sub-attributes of the message's Info attributes
InfosOf(msg) ==
    LET at == {i \in 1..Len(msg.nlas) : msg.nlas[i].t = "Info"}
    IN  IF at = {} THEN <<>> ELSE msg.nlas[CHOOSE i \in at : TRUE].infos

\* the info-kinds the message carries
KindsOf(msg) ==
    {InfosOf(msg)[i].kind : i \in {j \in 1..Len(InfosOf(msg)) : InfosOf(msg)[j].t = "Kind"}}

CarriesInfo(msg, t) == \E i \in 1..Len(InfosOf(msg)) : InfosOf(msg)[i].t = t

\* the reducer returned an interface record for the message
ReturnedIface == nl_msg # EmptyMsg /\ parsed.ret.ok /\ IsSome(parsed.ret.v[1])

TheIface == parsed.ret.v[1][1]

\* the decoder calls that failed
FailedCalls == {i \in 1..Len(parsed.calls) : parsed.calls[i].failed}

\* the decoders whose error the reducer drops
DroppingDecoders == {"tun", "sriov"}

\* C3: for a link message whose info-kind maps to a known kind, the record
\* that parse_nl_msg_to_iface returns has that kind as iface_type, whatever
\* the link-layer type is.
C3_KnownKindWins ==
    ReturnedIface =>
        \A k \in KindsOf(nl_msg) \cap KnownInfoKinds :
            /\ TheIface.iface_type[1] # "Other"
            /\ IfaceTypeDisplay(TheIface.iface_type) = InfoKindString(k)

\* an ethernet message of info-kind veth reported as veth, and
\* a loopback message of kind "openvswitch" reported as openvswitch
C3_Witness ==
    /\ ReturnedIface
    /\ \/ /\ nl_msg.link_layer_type = ARPHRD_ETHER
          /\ KindsOf(nl_msg) = {<<"Veth">>}
          /\ TheIface.iface_type = <<"Veth">>
       \/ /\ nl_msg.link_layer_type = ARPHRD_LOOPBACK
          /\ KindsOf(nl_msg) = {<<"Other", "openvswitch">>}
          /\ TheIface.iface_type = <<"OpenvSwitch">>

\* C4 as stated: for a link message whose info-kind is present but not
\* recognized, the reported iface_type is the link-layer kind when that is
\* ethernet or infiniband, and for every other link-layer type (loopback
\* included) the "other" variant carrying the info-kind string (the string of
\* the kernel, or the name the library gives the kind).
C4_UnrecognizedKind ==
    ReturnedIface =>
        \A k \in KindsOf(nl_msg) \cap UnrecognizedInfoKinds :
            IF nl_msg.link_layer_type \in {ARPHRD_ETHER, ARPHRD_INFINIBAND}
            THEN TheIface.iface_type = LinkLayerType(nl_msg)
            ELSE /\ TheIface.iface_type[1] = "Other"
                 /\ TheIface.iface_type[2] \in {InfoKindString(k), k[1]}

\* C7 as stated: whenever a decoder called from parse_nl_msg_to_iface fails,
\* the SR-IOV VF table decoder and the TUN decoder included,
\* parse_nl_msg_to_iface returns that error.
C7_DecoderErrorsReturned ==
    \A i \in FailedCalls : ~parsed.ret.ok /\ parsed.ret.err = parsed.calls[i].err

\* C7 amended: a failure of a decoder other than the TUN decoder and the
\* SR-IOV VF table decoder is returned by parse_nl_msg_to_iface; a failure of
\* the TUN decoder or of the SR-IOV VF table decoder is dropped: the parse goes
\* on, when no other decoder fails it returns Ok, and the interface record it
\* returns has the tun, respectively sriov, sub-record unset.
C7_DecoderErrorsReturnedButTunSriov ==
    /\ \A i \in FailedCalls :
          parsed.calls[i].decoder \notin DroppingDecoders =>
              ~parsed.ret.ok /\ parsed.ret.err = parsed.calls[i].err
    /\ (\A i \in FailedCalls : parsed.calls[i].decoder \in DroppingDecoders) => parsed.ret.ok
    /\ \A i \in FailedCalls :
          ReturnedIface =>
              /\ parsed.calls[i].decoder = "tun" => TheIface.tun = None
              /\ parsed.calls[i].decoder = "sriov" => TheIface.sriov = None

\* a message whose TUN data and whose VF table both hold an attribute of
\* unexpected length, for which the reducer returned a record
C7_Witness ==
    /\ ReturnedIface
    /\ \E i \in FailedCalls : parsed.calls[i].decoder = "tun"
    /\ \E i \in FailedCalls : parsed.calls[i].decoder = "sriov"
    /\ TheIface.tun = None
    /\ TheIface.sriov = None

\* C8 as stated: in every record parse_nl_msg_to_iface returns, controller
\* kind bridge comes with a bridge_port sub-record, bond with
\* bond_subordinate, vrf with vrf_subordinate, and no port sub-record of
\* another kind is present.
C8_PortRecordPresent ==
    ReturnedIface =>
        /\ TheIface.controller_type = Some(<<"Bridge">>) => IsSome(TheIface.bridge_port)
        /\ TheIface.controller_type = Some(<<"Bond">>) => IsSome(TheIface.bond_subordinate)
        /\ TheIface.controller_type = Some(<<"Vrf">>) => IsSome(TheIface.vrf_subordinate)
        /\ IsSome(TheIface.bridge_port) => TheIface.controller_type = Some(<<"Bridge">>)
        /\ IsSome(TheIface.bond_subordinate) => TheIface.controller_type = Some(<<"Bond">>)
        /\ IsSome(TheIface.vrf_subordinate) => TheIface.controller_type = Some(<<"Vrf">>)

\* C8 amended: in every record parse_nl_msg_to_iface returns, a port
\* sub-record is present only if the message carries a port-data
\* sub-attribute and only for the controller kind (bridge_port for bridge,
\* bond_subordinate for bond, vrf_subordinate for vrf); with controller kind
\* bond and port-data carried, bond_subordinate is present; a message that
\* carries a port-kind but no port-data yields the controller kind and no
\* port sub-record.
C8_PortRecordOnlyWithPortData ==
    ReturnedIface =>
        /\ IsSome(TheIface.bridge_port) => TheIface.controller_type = Some(<<"Bridge">>)
        /\ IsSome(TheIface.bond_subordinate) => TheIface.controller_type = Some(<<"Bond">>)
        /\ IsSome(TheIface.vrf_subordinate) => TheIface.controller_type = Some(<<"Vrf">>)
        /\ ~CarriesInfo(nl_msg, "PortData") =>
              /\ TheIface.bridge_port = None
              /\ TheIface.bond_subordinate = None
              /\ TheIface.vrf_subordinate = None
        /\ (TheIface.controller_type = Some(<<"Bond">>) /\ CarriesInfo(nl_msg, "PortData")) =>
              IsSome(TheIface.bond_subordinate)
        /\ CarriesInfo(nl_msg, "PortKind") => IsSome(TheIface.controller_type)

\* a message with port-kind "bridge" and no port-data: the record has
\* controller kind bridge and no bridge_port
C8_Witness ==
    /\ ReturnedIface
    /\ CarriesInfo(nl_msg, "PortKind")
    /\ ~CarriesInfo(nl_msg, "PortData")
    /\ TheIface.controller_type = Some(<<"Bridge">>)
    /\ TheIface.bridge_port = None

(***************************************************************************)
(* Properties of the address cycle (SpecIp).                               *)
(***************************************************************************)
\* the configured (not link-local) addresses of a kernel list
Configured(list) == {i \in 1..Len(list) : ~list[i].link_local}

\* a snapshot was retrieved after the last apply
Retrieved == IsSome(snap) /\ IsSome(before)

\* the last apply was DEL_IP_CONF on an interface holding exactly one
\* configured IPv4 address and one configured global IPv6 address
RemovedBoth ==
    /\ last_doc = "DEL_IP_CONF"
    /\ Retrieved
    /\ Cardinality(Configured(before[1].ipv4)) = 1
    /\ Cardinality(Configured(before[1].ipv6)) = 1

\* C5: after the one configured IPv4 address and the one configured global
\* IPv6 address of an interface are removed by applying the document with
\* remove: true on both, the retrieved snapshot has ipv4 absent (None, not an
\* empty list), an ipv6 list of the link-local address alone with forever
\* lifetimes, and iface_type veth as before.
C5_RemoveLeavesLinkLocal ==
    RemovedBoth =>
        /\ snap[1].ipv4 = None
        /\ snap[1].ipv6 =
              Some([addresses |-> <<[address |-> "fe80::223:45ff:fe67:891a",
                                     prefix_len |-> 64, valid_lft |-> "forever",
                                     preferred_lft |-> "forever"]>>])
        /\ snap[1].iface_type = <<"Veth">>

\* the removal of addresses that had dynamic lifetimes which were counting
\* down, retrieved
C5_Witness ==
    /\ RemovedBoth
    /\ before[1].ipv4[1].valid_lft # Forever
    /\ before[1].ipv4[1].valid_lft # Seconds(120)
    /\ snap[1].ipv4 = None
    /\ IsSome(snap[1].ipv6)

\* the snapshot was retrieved right after the last apply of an add document
RetrievedFresh == Retrieved /\ fresh /\ last_doc \in {"ADD_IP_CONF", "ADD_IP_CONF_DYNAMIC"}

\* C6: the snapshot retrieved after the n-th consecutive apply of one add
\* document (n >= 1) has the address lists of the snapshot retrieved after the
\* first apply, without duplicated entries, and after an apply of the dynamic
\* document the addresses have the requested valid/preferred lifetimes again.
C6_ApplyIdempotent ==
    RetrievedFresh =>
        /\ IsSome(first_snap) =>
              /\ snap[1].ipv4 = first_snap[1].ipv4
              /\ snap[1].ipv6 = first_snap[1].ipv6
        /\ Len(snap[1].ipv4[1].addresses) = 1
        /\ Len(snap[1].ipv6[1].addresses) = 2
        /\ last_doc = "ADD_IP_CONF_DYNAMIC" =>
              /\ snap[1].ipv4[1].addresses[1].valid_lft = "120sec"
              /\ snap[1].ipv4[1].addresses[1].preferred_lft = "60sec"
              /\ snap[1].ipv6[1].addresses[1].valid_lft = "121sec"
              /\ snap[1].ipv6[1].addresses[1].preferred_lft = "61sec"
        /\ last_doc = "ADD_IP_CONF" =>
              /\ snap[1].ipv4[1].addresses[1].valid_lft = "forever"
              /\ snap[1].ipv6[1].addresses[1].preferred_lft = "forever"

\* the dynamic document applied three times with two seconds gone by before
\* the third apply, and a snapshot after the first and after the third apply
C6_Witness ==
    /\ RetrievedFresh
    /\ last_doc = "ADD_IP_CONF_DYNAMIC"
    /\ run_len = 3
    /\ now >= 2
    /\ IsSome(first_snap)
    /\ snap = first_snap

(***************************************************************************)
(* Properties of change_iface_mac (SpecMac).                               *)
(***************************************************************************)
\* the set-address request comes after a link-down request of the same call
DownBeforeSetAddress ==
    \A i \in 1..Len(requests) :
        requests[i].op = "set_address" =>
            \E j \in 1..(i - 1) : requests[j] = SetLinkRequest(mac_arg.index, FALSE)

\* no set-address request is with the kernel while the link is up
NoSetAddressWhileUp == mac_pc = "await_set" => ~link_up

\* C9 as stated: change_iface_mac issues link-down before set-address, never
\* has set-address issued while the link is up, and after a successful MAC
\* change the link is back in the administrative state it had before.
C9_DownSetRestore ==
    /\ DownBeforeSetAddress
    /\ NoSetAddressWhileUp
    /\ mac_ret = "ok" => link_up = prior_up

\* C9 amended: change_iface_mac issues link-down before set-address and never
\* has set-address issued while the link is up; it issues no request after
\* set-address, so that it returns from a successful MAC change with the new
\* address set and the link administratively down, whatever state the link
\* had before.
C9_DownSetLeftDown ==
    /\ DownBeforeSetAddress
    /\ NoSetAddressWhileUp
    /\ mac_ret = "ok" =>
          /\ ~link_up
          /\ Len(requests) = 2
          /\ requests[2].op = "set_address"
          /\ link_mac = requests[2].address

\* a successful MAC change of a link that was up: the address is the new one
\* and the link is down
C9_Witness ==
    /\ mac_ret = "ok"
    /\ prior_up
    /\ ~link_up
    /\ mac_arg.mac_address = "00:23:45:67:89:1b"
    /\ link_mac = <<0, 35, 69, 103, 137, 27>>

\* C10: in change_iface_mac a rejected request ends the call with the error:
\* after a rejected link-down no set-address request is issued and the link
\* is as it was; after a rejected set-address nothing is re-sent and the link
\* is left down; every request is issued at most once.
C10_RejectionAborts ==
    /\ \A i \in 1..Len(replies) :
          replies[i] = "rejected" =>
              /\ i = Len(replies)
              /\ Len(requests) = i
              /\ mac_pc = "returned"
              /\ mac_ret \in {"err_down", "err_set"}
    /\ mac_ret = "err_down" =>
          /\ requests = <<SetLinkRequest(mac_arg.index, FALSE)>>
          /\ replies = <<"rejected">>
          /\ link_up = prior_up
    /\ mac_ret = "err_set" =>
          /\ Len(requests) = 2
          /\ requests[1] = SetLinkRequest(mac_arg.index, FALSE)
          /\ requests[2].op = "set_address"
          /\ replies = <<"accepted", "rejected">>
          /\ ~link_up
    /\ \A i, j \in 1..Len(requests) : requests[i] = requests[j] => i = j
    /\ Len(requests) <= 2

\* the second call of change_iface_mac on a link that was up: link-down was
\* accepted, set-address rejected, and the link is left down
C10_Witness ==
    /\ mac_ret = "err_set"
    /\ prior_up
    /\ ~link_up
    /\ mac_calls = 2
    /\ replies = <<"accepted", "rejected">>

(***************************************************************************)
(* Properties of VethConf::create (SpecCreate).                            *)
(***************************************************************************)
\* the running or last call was rejected by the kernel
CreateFailed == IsSome(create_ret) /\ ~create_ret[1].ok

\* the pieces of an error message
Pieces(msg) == {msg[i] : i \in 1..Len(msg)}

\* C11 as stated: when the kernel rejects the veth pair creation request of
\* VethConf::create, the error returned is of the SysCall kind and carries
\* the interface name and the peer name; when the kernel accepts, create
\* returns Ok and has issued exactly one add request for the pair.
C11_CreateErrorIsSysCall ==
    /\ CreateFailed =>
          /\ create_ret[1].kind = "SysCall"
          /\ create_arg.name \in Pieces(create_ret[1].msg)
          /\ create_arg.peer \in Pieces(create_ret[1].msg)
    /\ (IsSome(create_ret) /\ create_ret[1].ok) =>
          create_requests = <<AddVethRequest(create_arg.name, create_arg.peer)>>

(***************************************************************************)
(* Properties of the functions applied to one input (SpecFn).              *)
(***************************************************************************)
Applied(f) == fn_call # <<>> /\ fn_call[1] = f

\* the VF entries of the PFs of an interface map that carry iface_name n
EntriesNaming(states, n) ==
    UNION {{Unwrap(states[pf].sriov).vfs[i] :
               i \in {j \in 1..Len(Unwrap(states[pf].sriov).vfs) :
                         Unwrap(states[pf].sriov).vfs[j].iface_name = Some(n)}}
           : pf \in {m \in DOMAIN states : IsSome(states[m].sriov)}}

\* C12: after sriov_vf_iface_tidy_up, an interface of the map that a PF's VF
\* entry names has as sriov_vf a copy of a PF-side VF entry carrying its name;
\* the pass sets sriov_vf on no other interface, and changes nothing else:
\* the PFs' vfs lists are as before.
C12_VfBackReference ==
    Applied("sriov_vf_iface_tidy_up") =>
        /\ DOMAIN fn_ret = DOMAIN fn_call[2]
        /\ \A n \in DOMAIN fn_call[2] :
              /\ EntriesNaming(fn_call[2], n) # {} =>
                    /\ IsSome(fn_ret[n].sriov_vf)
                    /\ Unwrap(fn_ret[n].sriov_vf) \in EntriesNaming(fn_call[2], n)
              /\ EntriesNaming(fn_call[2], n) = {} => fn_ret[n].sriov_vf = fn_call[2][n].sriov_vf
              /\ fn_ret[n].sriov = fn_call[2][n].sriov
              /\ [fn_ret[n] EXCEPT !.sriov_vf = None] = [fn_call[2][n] EXCEPT !.sriov_vf = None]

\* two PFs whose VF entries both name "eth0v0", an interface of the map, and
\* an entry naming "eth2", which is not: "eth0v0" got the entry of "eth1"
C12_Witness ==
    /\ Applied("sriov_vf_iface_tidy_up")
    /\ DOMAIN fn_call[2] = {"eth0", "eth1", "eth0v0"}
    /\ EntriesNaming(fn_call[2], "eth2") # {}
    /\ Cardinality(EntriesNaming(fn_call[2], "eth0v0")) >= 2
    /\ IsSome(fn_ret["eth0v0"].sriov_vf)
    /\ Unwrap(fn_ret["eth0v0"].sriov_vf).pf_name = Some("eth1")
    /\ fn_ret["eth0"].sriov_vf = None

\* the operational state a message carries, if any
StatesOf(msg) ==
    {msg.nlas[i].state : i \in {j \in 1..Len(msg.nlas) : msg.nlas[j].t = "OperState"}}

\* the port kinds a message carries
PortKindsOf(msg) ==
    {InfosOf(msg)[i].kind : i \in {j \in 1..Len(InfosOf(msg)) : InfosOf(msg)[j].t = "PortKind"}}

\* C13: no kernel-sourced enumerated value fails a conversion. The VF link
\* state of a u32 is auto, enable, disable for 0, 1, 2 and otherwise "other"
\* carrying the value; the controller kind of a string is bond, bridge, vrf,
\* openvswitch for these four strings and otherwise "other" carrying the
\* string; and parse_nl_msg_to_iface returns an error only when a per-kind
\* decoder failed, with that decoder's error, whatever info-kind, operational
\* state or port kind the message carries.
C13_UnrecognizedValuesAccepted ==
    /\ Applied("VfLinkState::from") =>
          fn_ret = CASE fn_call[2] = <<0, 0>> -> <<"Auto">>
                     [] fn_call[2] = <<0, 1>> -> <<"Enable">>
                     [] fn_call[2] = <<0, 2>> -> <<"Disable">>
                     [] OTHER -> <<"Other", fn_call[2]>>
    /\ Applied("ControllerType::from") =>
          fn_ret = CASE fn_call[2] = "bond" -> <<"Bond">>
                     [] fn_call[2] = "bridge" -> <<"Bridge">>
                     [] fn_call[2] = "vrf" -> <<"Vrf">>
                     [] fn_call[2] = "openvswitch" -> <<"OpenvSwitch">>
                     [] OTHER -> <<"Other", fn_call[2]>>
    /\ (Applied("parse_nl_msg_to_iface") /\ fn_call[2] = "enum" /\ ~fn_ret.ok) =>
          \E i \in 1..Len(parsed.calls) : parsed.calls[i].failed /\ parsed.calls[i].err = fn_ret.err

\* a message with an info-kind, an operational state and a port kind the
\* code does not name was reduced to a record
C13_Witness ==
    /\ Applied("parse_nl_msg_to_iface") /\ fn_call[2] = "enum"
    /\ KindsOf(nl_msg) = {<<"Other", "foo">>}
    /\ StatesOf(nl_msg) = {<<"Other", 7>>}
    /\ PortKindsOf(nl_msg) = {<<"Other", "team">>}
    /\ fn_ret.ok /\ IsSome(fn_ret.v[1])
    /\ fn_ret.v[1][1].state = <<"Other", "Other(7)">>
    /\ fn_ret.v[1][1].controller_type = Some(<<"Other", "team">>)

\* the attributes of the given kind in the first VF entry of a table
VfAttrs(raw, kind) ==
    {raw[1].nlas[i] : i \in {j \in 1..Len(raw[1].nlas) : raw[1].nlas[j].kind = kind}}

\* the table holds one VF entry whose attribute of that kind, the only one,
\* carries the 32-bit value d after the VF id
Carries(raw, kind, d) ==
    /\ Len(raw) = 1
    /\ VfAttrs(raw, kind) # {}
    /\ \A a \in VfAttrs(raw, kind) : Len(a.words) = 2 /\ a.words[2] = d

\* the reading of a 32-bit boolean: neither zero nor all ones
Truthy(d) == d # <<0, 0>> /\ d # <<65535, 65535>>

\* C14: for every 32-bit value d of a VF's spoof-check, rss-query or trust
\* attribute, the boolean get_sriov_info reports is true exactly when d is
\* neither 0 nor 0xFFFFFFFF.
C14_VfBooleans ==
    Applied("get_sriov_info") =>
        \A d \in BoolSamples :
            /\ (fn_ret.ok /\ Carries(fn_call[2], 4, d)) =>
                  (fn_ret.v[1].vfs[1].spoof_check <=> Truthy(d))
            /\ (fn_ret.ok /\ Carries(fn_call[2], 7, d)) =>
                  (fn_ret.v[1].vfs[1].query_rss <=> Truthy(d))
            /\ (fn_ret.ok /\ Carries(fn_call[2], 9, d)) =>
                  (fn_ret.v[1].vfs[1].trust <=> Truthy(d))
            /\ fn_call[2] \in BoolVfTables => fn_ret.ok

\* a table with spoof-check all ones, rss-query with the sign bit set and
\* trust zero was decoded: only rss-query is reported true
C14_Witness ==
    /\ Applied("get_sriov_info")
    /\ Carries(fn_call[2], 4, <<65535, 65535>>)
    /\ Carries(fn_call[2], 7, <<32768, 0>>)
    /\ Carries(fn_call[2], 9, <<0, 0>>)
    /\ fn_ret.ok
    /\ ~fn_ret.v[1].vfs[1].spoof_check
    /\ fn_ret.v[1].vfs[1].query_rss
    /\ ~fn_ret.v[1].vfs[1].trust

\* the 16 flags the record may list, each with its bit: the half of the u32
\* (1 high, 2 low) and the value of the bit within that half
NamedFlags ==
    {<<"Up", 2, 1>>, <<"Broadcast", 2, 2>>, <<"Debug", 2, 4>>, <<"Loopback", 2, 8>>,
     <<"PoinToPoint", 2, 16>>, <<"Running", 2, 64>>, <<"NoArp", 2, 128>>,
     <<"Promisc", 2, 256>>, <<"AllMulti", 2, 512>>, <<"Controller", 2, 1024>>,
     <<"Subordinate", 2, 2048>>, <<"Multicast", 2, 4096>>, <<"Portsel", 2, 8192>>,
     <<"AutoMedia", 2, 16384>>, <<"LowerUp", 1, 1>>, <<"Dormant", 1, 2>>}

\* bit b (a power of two) of the 16-bit half h is set
BitOf(h, b) == (h \div b) % 2 = 1

\* the flags with every bit that belongs to no named flag cleared
NamedBitsOf(flags) ==
    <<flags[1] % 4,
      flags[2] - (IF BitOf(flags[2], 32) THEN 32 ELSE 0)
               - (IF BitOf(flags[2], 32768) THEN 32768 ELSE 0)>>

\* C15: the list _parse_iface_flags returns holds each of the 16 named flags
\* once when its bit is set and not at all when it is clear (subordinate
\* being bit 0x800), holds nothing else (no Other, no Unknown), and is the
\* list returned for the same flags with the unnamed bits cleared.
C15_FlagsDecoded ==
    Applied("_parse_iface_flags") =>
        /\ \A f \in NamedFlags :
              Cardinality({i \in 1..Len(fn_ret) : fn_ret[i] = <<f[1]>>})
                 = IF BitOf(fn_call[2][f[2]], f[3]) THEN 1 ELSE 0
        /\ \A i \in 1..Len(fn_ret) : \E f \in NamedFlags : fn_ret[i] = <<f[1]>>
        /\ fn_ret = _parse_iface_flags(NamedBitsOf(fn_call[2]))

\* flags 0x0007FFFF, every named bit and the unnamed bits 0x20, 0x8000 and
\* 0x40000: the list holds the 16 named flags, Subordinate among them
C15_Witness ==
    /\ Applied("_parse_iface_flags")
    /\ fn_call[2] = <<7, 65535>>
    /\ Len(fn_ret) = 16
    /\ \E i \in 1..Len(fn_ret) : fn_ret[i] = <<"Subordinate">>

\* the attribute kinds get_sriov_info names, and those parse_vf_stats names
NamedVfKinds == 1..13
NamedStatsKinds == (0..8) \ {6}

\* the attributes of a list whose kind is among the given ones
RECURSIVE OfKinds(_, _)
OfKinds(nlas, kinds) ==
    IF nlas = <<>> THEN <<>>
    ELSE (IF Head(nlas).kind \in kinds THEN <<Head(nlas)>> ELSE <<>>) \o OfKinds(Tail(nlas), kinds)

\* a VF table without its attributes of unknown kind
WithoutUnknown(raw) ==
    [p \in 1..Len(raw) |->
        [raw[p] EXCEPT !.nlas =
            LET named == OfKinds(raw[p].nlas, NamedVfKinds)
            IN  [i \in 1..Len(named) |->
                    [named[i] EXCEPT !.stats = OfKinds(named[i].stats, NamedStatsKinds)]]]]

\* C16: well-formed sub-attributes of an unknown kind, in a VF entry or in
\* its statistics block, do not change what get_sriov_info returns: the
\* result is that of the table without them, and a table that decodes
\* without them decodes with them.
C16_UnknownVfAttributesSkipped ==
    Applied("get_sriov_info") =>
        fn_ret = get_sriov_info(fn_call[3], "eth0", WithoutUnknown(fn_call[2]), fn_call[4])

\* a table with an attribute of kind 99 in the VF entry and one of kind 6 in
\* the statistics block was decoded, statistics included
C16_Witness ==
    /\ Applied("get_sriov_info")
    /\ VfAttrs(fn_call[2], 99) # {}
    /\ \E a \in VfAttrs(fn_call[2], 8) : \E i \in 1..Len(a.stats) : a.stats[i].kind = 6
    /\ WithoutUnknown(fn_call[2]) = GoodVfTable
    /\ fn_ret.ok
    /\ fn_ret.v[1].vfs[1].state.rx_packets # U64Zero
    /\ fn_ret.v[1].vfs[1].spoof_check

\* the 32-bit values the attributes of kind t of a message carry
MtusOf(msg, t) ==
    {msg.nlas[i].mtu : i \in {j \in 1..Len(msg.nlas) : msg.nlas[j].t = t}}

\* the 64-bit signed integer, as its halves, whose value is that of the
\* unsigned 32-bit d
Widened(d) == <<0, 0, d[1], d[2]>>

\* an optional MTU limit is as the attribute of kind t says: absent when the
\* attribute is missing or zero, else its widened value
LimitAsSent(limit, msg, t) ==
    /\ limit = None <=> (MtusOf(msg, t) = {} \/ MtusOf(msg, t) = {<<0, 0>>})
    /\ \A d \in MtusOf(msg, t) : d # <<0, 0>> => limit = Some(Widened(d))

\* C17: the record's mtu is the message's unsigned 32-bit MTU widened to a
\* signed 64-bit integer, never negative, also for values of 2^31 and more;
\* min_mtu and max_mtu are absent exactly when their attribute is missing or
\* carries zero, and are the widened value otherwise.
C17_MtuWidened ==
    (Applied("parse_nl_msg_to_iface") /\ fn_call[2] = "mtu") =>
        /\ fn_ret.ok /\ IsSome(fn_ret.v[1])
        /\ \A d \in MtusOf(nl_msg, "Mtu") : fn_ret.v[1][1].mtu = Widened(d)
        /\ fn_ret.v[1][1].mtu[1] < 32768
        /\ LimitAsSent(fn_ret.v[1][1].min_mtu, nl_msg, "MinMtu")
        /\ LimitAsSent(fn_ret.v[1][1].max_mtu, nl_msg, "MaxMtu")

\* a message with MTU 0x80000000, minimum MTU zero and maximum MTU
\* 0xFFFFFFFF was reduced
C17_Witness ==
    /\ Applied("parse_nl_msg_to_iface") /\ fn_call[2] = "mtu"
    /\ MtusOf(nl_msg, "Mtu") = {<<32768, 0>>}
    /\ MtusOf(nl_msg, "MinMtu") = {<<0, 0>>}
    /\ MtusOf(nl_msg, "MaxMtu") = {<<65535, 65535>>}
    /\ fn_ret.ok
    /\ fn_ret.v[1][1].mtu = <<0, 0, 32768, 0>>
    /\ fn_ret.v[1][1].min_mtu = None
    /\ fn_ret.v[1][1].max_mtu = Some(<<0, 0, 65535, 65535>>)

\* the directory of a sysfs tree is missing or unreadable
Unreadable(fs, path) == path \notin DOMAIN fs \/ ~fs[path].readable

C19_VethPassFrame ==
    phase = "tidied" =>
        /\ DOMAIN iface_states = DOMAIN reduced
        /\ \A n \in DOMAIN reduced :
              /\ [iface_states[n] EXCEPT !.veth = reduced[n].veth] = reduced[n]
              /\ reduced[n].iface_type # <<"Veth">> => iface_states[n] = reduced[n]
              /\ IsSome(reduced[n].link_netnsid) => iface_states[n] = reduced[n]
              /\ IsSome(iface_states[n].veth) <=> IsSome(reduced[n].veth)

\* a map of three interfaces after the pass: a veth that got its peer's name,
\* a veth with link-netns-id set whose peer index is a local index, and an
\* interface that is not a veth
C19_Witness ==
    /\ phase = "tidied"
    /\ Cardinality(DOMAIN reduced) = 3
    /\ \E n \in DOMAIN reduced : iface_states[n] # reduced[n]
    /\ \E n \in VethsWithPeer :
          /\ IsSome(reduced[n].link_netnsid)
          /\ NamesOfIndex(peer_index[n][1]) # {}
    /\ \E n \in DOMAIN reduced : reduced[n].iface_type # <<"Veth">>

\* the interfaces the second run changed
ChangedAgain == {n \in DOMAIN first_pass : iface_states[n] # first_pass[n]}

\* an interface of the map whose name reads as the index of another one
ReadsAsIndex(states) ==
    {n \in DOMAIN states : \E m \in DOMAIN states : m # n /\ ToString(states[m].index) = n}

\* C20 as stated: running veth_iface_tidy_up a second time leaves the map
\* equal to the result of the first run, also when an interface's name is the
\* decimal string of the index of another interface of the map.
C20_VethPassIdempotent ==
    phase = "tidied twice" => iface_states = first_pass

\* C20 amended: a second run of veth_iface_tidy_up leaves the map as the
\* first run left it unless the name of an interface reads as the index of
\* another interface of the map; the second run changes only a veth whose
\* link-netns-id is unset and whose peer after the first run is such a name,
\* and gives it the name of the interface of that index.
C20_VethPassIdempotentOnPlainNames ==
    phase = "tidied twice" =>
        /\ ReadsAsIndex(first_pass) = {} => iface_states = first_pass
        /\ \A n \in ChangedAgain :
              /\ first_pass[n].iface_type = <<"Veth">>
              /\ ~IsSome(first_pass[n].link_netnsid)
              /\ first_pass[n].veth[1].peer \in ReadsAsIndex(first_pass)
              /\ ToString(first_pass[iface_states[n].veth[1].peer].index)
                    = first_pass[n].veth[1].peer

\* both cases after a second run: a map without a name that reads as an index,
\* where the first run had resolved a peer
C20_Witness ==
    /\ phase = "tidied twice"
    /\ ReadsAsIndex(first_pass) = {}
    /\ \E n \in DOMAIN first_pass : first_pass[n] # reduced[n]
    /\ iface_states = first_pass

(***************************************************************************)
(* Properties of the reducer under reordering of the attributes.           *)
(***************************************************************************)
\* the elements of a list of attributes that carry tag t, in their order
RECURSIVE Tagged(_, _)
Tagged(seq, t) ==
    IF seq = <<>> THEN <<>>
    ELSE (IF Head(seq).t = t THEN <<Head(seq)>> ELSE <<>>) \o Tagged(Tail(seq), t)

\* the message with its attributes in the kernel's order: the name, Info with
\* Kind, Data, PortKind, PortData, then Link
KernelOrder(msg) ==
    [msg EXCEPT !.nlas =
        Tagged(msg.nlas, "IfName")
        \o <<[t |-> "Info",
              infos |-> Tagged(InfosOf(msg), "Kind") \o Tagged(InfosOf(msg), "Data")
                        \o Tagged(InfosOf(msg), "PortKind") \o Tagged(InfosOf(msg), "PortData")]>>
        \o Tagged(msg.nlas, "Link")]

\* C21: for a link message in which Link and the Info sub-attributes Kind,
\* Data, PortKind and PortData occur at most once each, what
\* parse_nl_msg_to_iface returns is what it returns for the same attributes
\* in the kernel's order, whatever the order of the Info sub-attributes and
\* whether Link comes before or after Info; a veth that carries Link has the
\* link index as peer, and a vlan decoded from the data block has it as base
\* interface.
C21_OrderIndependent ==
    (Applied("parse_nl_msg_to_iface") /\ fn_call[2] = "order") =>
        /\ fn_ret = parse_nl_msg_to_iface(KernelOrder(nl_msg), <<>>)
        /\ (fn_ret.ok /\ KindsOf(nl_msg) = {<<"Veth">>} /\ Tagged(nl_msg.nlas, "Link") # <<>>) =>
              fn_ret.v[1][1].veth = Some([peer |-> ToString(Tagged(nl_msg.nlas, "Link")[1].l)])
        /\ (fn_ret.ok /\ KindsOf(nl_msg) = {<<"Vlan">>} /\ Tagged(nl_msg.nlas, "Link") # <<>>
            /\ \E i \in 1..Len(InfosOf(nl_msg)) :
                  InfosOf(nl_msg)[i].t = "Data" /\ InfosOf(nl_msg)[i].d.ok /\ InfosOf(nl_msg)[i].d.some) =>
              /\ IsSome(fn_ret.v[1][1].vlan)
              /\ fn_ret.v[1][1].vlan[1].base_iface = ToString(Tagged(nl_msg.nlas, "Link")[1].l)

\* a message with Link ahead of Info, and in Info PortData, Data, PortKind and
\* then Kind: the vlan record was decoded and has the link index
C21_Witness ==
    /\ Applied("parse_nl_msg_to_iface") /\ fn_call[2] = "order"
    /\ nl_msg.nlas[2].t = "Link"
    /\ Len(InfosOf(nl_msg)) = 4
    /\ InfosOf(nl_msg)[1].t = "PortData"
    /\ InfosOf(nl_msg)[2].t = "Data"
    /\ InfosOf(nl_msg)[3].t = "PortKind"
    /\ InfosOf(nl_msg)[4] = [t |-> "Kind", kind |-> <<"Vlan">>]
    /\ fn_ret.ok
    /\ IsSome(fn_ret.v[1][1].vlan)
    /\ fn_ret.v[1][1].vlan[1].base_iface = ToString(MaxIndex + 9)
    /\ IsSome(fn_ret.v[1][1].bond_subordinate)

====
